---------------------------- MODULE Spec2Model ----------------------------
(***************************************************************************)
(* A model of the kilo text editor (src/kilo.c).                           *)
(*                                                                         *)
(* Bytes are one-character strings; a C string is a sequence of bytes.     *)
(* Keys are bytes or the names of the keys editorReadKey decodes.  C       *)
(* indices are kept 0-based: element i of a C array a is a[i + 1] here.    *)
(*                                                                         *)
(* The main loop of main() is `editorRefreshScreen(); editorProcess-       *)
(* Keypress();'.  Every action below is one pass of that loop taken from   *)
(* the key on: the whole handler of the key followed by the                *)
(* editorScroll() of the refresh that follows it, and Init is the state    *)
(* after main()'s set-up and the first refresh.  The loop of editorPrompt  *)
(* is modelled the same way.                                               *)
(***************************************************************************)
EXTENDS Integers, Sequences, FiniteSets, TLC

(***************************************************************************)
(* defines                                                                 *)
(***************************************************************************)
KILO_TAB_STOP == 8
KILO_QUIT_TIMES == 3

\* the terminating '\0' of a C string, read at index == length
NUL == "NUL"
TAB == "\t"

ENTER == "\r"
ESC == "ESC"
BACKSPACE == "BACKSPACE"
CTRL_F == "CTRL_F"
CTRL_H == "CTRL_H"
CTRL_L == "CTRL_L"
CTRL_Q == "CTRL_Q"
CTRL_S == "CTRL_S"
ARROW_LEFT == "ARROW_LEFT"
ARROW_RIGHT == "ARROW_RIGHT"
ARROW_DOWN == "ARROW_DOWN"
ARROW_UP == "ARROW_UP"
DEL_KEY == "DEL_KEY"
HOME_KEY == "HOME_KEY"
END_KEY == "END_KEY"
PAGE_UP == "PAGE_UP"
PAGE_DOWN == "PAGE_DOWN"

HL_NORMAL == 0
HL_COMMENT == 1
HL_MLCOMMENT == 2
HL_KEYWORD1 == 3
HL_KEYWORD2 == 4
HL_STRING == 5
HL_NUMBER == 6
HL_MATCH == 7

HL_HIGHLIGHT_NUMBERS == 1
HL_HIGHLIGHT_STRINGS == 2

(***************************************************************************)
(* filetypes                                                               *)
(***************************************************************************)
C_HL_extensions == << <<".", "c">>, <<".", "h">>, <<".", "c", "p", "p">> >>

C_HL_keywords ==
    << <<"s","w","i","t","c","h">>, <<"i","f">>, <<"w","h","i","l","e">>,
       <<"f","o","r">>, <<"b","r","e","a","k">>,
       <<"c","o","n","t","i","n","u","e">>, <<"r","e","t","u","r","n">>,
       <<"e","l","s","e">>, <<"s","t","r","u","c","t">>,
       <<"u","n","i","o","n">>, <<"t","y","p","e","d","e","f">>,
       <<"s","t","a","t","i","c">>, <<"e","n","u","m">>,
       <<"c","l","a","s","s">>, <<"c","a","s","e">>,
       <<"i","n","t","|">>, <<"l","o","n","g","|">>,
       <<"d","o","u","b","l","e","|">>, <<"f","l","o","a","t","|">>,
       <<"c","h","a","r","|">>, <<"u","n","s","i","g","n","e","d","|">>,
       <<"s","i","g","n","e","d","|">>, <<"v","o","i","d","|">> >>

HLDB ==
    << [filetype |-> "c",
        filematch |-> C_HL_extensions,
        keywords |-> C_HL_keywords,
        singleline_comment_start |-> <<"/", "/">>,
        multiline_comment_start |-> <<"/", "*">>,
        multiline_comment_end |-> <<"*", "/">>,
        flags |-> HL_HIGHLIGHT_NUMBERS + HL_HIGHLIGHT_STRINGS] >>

HLDB_ENTRIES == Len(HLDB)

(***************************************************************************)
(* C library                                                               *)
(***************************************************************************)
Max(a, b) == IF a > b THEN a ELSE b

\* s[i] of a NUL-terminated C string s
CharAt(s, i) == IF i < Len(s) THEN s[i + 1] ELSE NUL

\* a NULL char *.  The program never tests an empty string for NULL: the
\* prompt returns non-empty buffers only.
NoString == << >>

\* s ? strlen(s) : 0
StrLen(s) == IF s = NoString THEN 0 ELSE Len(s)

\* !strncmp(&s[i], t, strlen(t))
StrNCmpEq(s, i, t) ==
    /\ i + Len(t) <= Len(s)
    /\ SubSeq(s, i + 1, i + Len(t)) = t

\* memset(&a[i], v, n): writes the n cells from i on, whatever a's length
MemSet(a, i, v, n) ==
    [j \in 1..Max(Len(a), i + n) |->
        IF j - 1 >= i /\ j - 1 < i + n THEN v ELSE a[j]]

\* the offset of the first occurrence of t in s (strstr), or -1
StrStr(s, t) ==
    LET hits == {i \in 0..Len(s) : StrNCmpEq(s, i, t)}
    IN  IF hits = {} THEN -1 ELSE CHOOSE i \in hits : \A j \in hits : i <= j

\* strchr(s, c) on a sequence of bytes: the suffix from the first c, or NULL
StrChr(s, c) ==
    LET hits == {i \in 1..Len(s) : s[i] = c}
    IN  IF hits = {} THEN NoString
        ELSE SubSeq(s, CHOOSE i \in hits : \A j \in hits : i <= j, Len(s))

isspace(c) == c \in {" ", "\t", "\n", "\r", "\f"}
isdigit(c) == c \in {"0", "1", "2", "3", "4", "5", "6", "7", "8", "9"}
\* the control bytes among the bytes and keys of the model
iscntrl(c) ==
    c \in {"\t", "\n", "\r", "\f", ESC, BACKSPACE, CTRL_F, CTRL_H, CTRL_L,
           CTRL_Q, CTRL_S}
\* the byte 0xFF as editorReadKey returns it from its `char c': the key -1
\* in a build whose char is signed, the key 255 in one whose char is not
CHAR_FF_SIGNED == "-1"
CHAR_FF_UNSIGNED == "255"

\* c < 128 for a key c: the keys of enum editorKey from ARROW_LEFT on are
\* numbered from 1000
Below128(c) ==
    c \notin {ARROW_LEFT, ARROW_RIGHT, ARROW_DOWN, ARROW_UP, DEL_KEY,
              HOME_KEY, END_KEY, PAGE_UP, PAGE_DOWN, CHAR_FF_UNSIGNED}

(***************************************************************************)
(* syntax highlighting                                                     *)
(***************************************************************************)
is_separator(c) ==
    \/ isspace(c)
    \/ c = NUL
    \/ c \in {",", ".", "(", ")", "+", "-", "/", "=", "~", "%", "<", ">",
              "[", "]", ";"}

HasFlag(flags, f) == (flags \div f) % 2 = 1

\* seeded fault: a keyword loop that does not look at the byte after the
\* keyword
KeywordAtAnyEnd(keywords, render, i) ==
    LET klen(j) == IF keywords[j][Len(keywords[j])] = "|"
                   THEN Len(keywords[j]) - 1 ELSE Len(keywords[j])
        hits == {j \in 1..Len(keywords) :
                     StrNCmpEq(render, i, SubSeq(keywords[j], 1, klen(j)))}
    IN  IF hits = {} THEN 0 ELSE CHOOSE j \in hits : \A k \in hits : j <= k

\* The keyword loop of editorUpdateSyntax: the index (from 1) of the first
\* keyword that matches render at i and is followed by a separator, 0 if none.
KeywordAt(keywords, render, i) ==
    LET klen(j) == IF keywords[j][Len(keywords[j])] = "|"
                   THEN Len(keywords[j]) - 1 ELSE Len(keywords[j])
        hit(j) == /\ StrNCmpEq(render, i, SubSeq(keywords[j], 1, klen(j)))
                  /\ is_separator(CharAt(render, i + klen(j)))
        hits == {j \in 1..Len(keywords) : hit(j)}
    IN  IF hits = {} THEN 0 ELSE CHOOSE j \in hits : \A k \in hits : j <= k

\* The while loop of editorUpdateSyntax from position i on, for the row's
\* render under syntax s; yields the highlight and the final in_comment.
\* in_string is NUL (the code's 0) or the opening quote.
RECURSIVE SyntaxScan(_, _, _, _, _, _, _)
SyntaxScan(s, render, hl, i, prev_sep, in_string, in_comment) ==
    LET rsize == Len(render)
        c == CharAt(render, i)
        prev_hl == IF i > 0 THEN hl[i] ELSE HL_NORMAL
        scs == s.singleline_comment_start
        mcs == s.multiline_comment_start
        mce == s.multiline_comment_end
        scs_len == StrLen(scs)
        mcs_len == StrLen(mcs)
        mce_len == StrLen(mce)
        strings == HasFlag(s.flags, HL_HIGHLIGHT_STRINGS)
        numbers == HasFlag(s.flags, HL_HIGHLIGHT_NUMBERS)
        \* hl and in_string after the string block, when it does not `continue'
        opens == strings /\ in_string = NUL /\ (c = "\"" \/ c = "'")
        hl1 == IF opens THEN [hl EXCEPT ![i + 1] = HL_STRING] ELSE hl
        in_string1 == IF opens THEN c ELSE in_string
        kw == IF prev_sep THEN KeywordAt(s.keywords, render, i) ELSE 0
        kw2 == s.keywords[kw][Len(s.keywords[kw])] = "|"
        klen == IF kw2 THEN Len(s.keywords[kw]) - 1 ELSE Len(s.keywords[kw])
    IN  IF i >= rsize THEN [hl |-> hl, in_comment |-> in_comment]
        ELSE IF scs_len > 0 /\ in_string = NUL /\ ~in_comment
                /\ StrNCmpEq(render, i, scs)
        THEN [hl |-> MemSet(hl, i, HL_COMMENT, rsize - i),
              in_comment |-> in_comment]
        ELSE IF mcs_len > 0 /\ mce_len > 0 /\ in_string = NUL /\ in_comment
        THEN IF StrNCmpEq(render, i, mce)
             THEN SyntaxScan(s, render, MemSet(hl, i, HL_MLCOMMENT, mce_len),
                             i + mce_len, TRUE, in_string, FALSE)
             ELSE SyntaxScan(s, render, [hl EXCEPT ![i + 1] = HL_MLCOMMENT],
                             i + 1, prev_sep, in_string, in_comment)
        ELSE IF mcs_len > 0 /\ mce_len > 0 /\ in_string = NUL
                /\ StrNCmpEq(render, i, mcs)
        THEN SyntaxScan(s, render, MemSet(hl, i, HL_MLCOMMENT, mcs_len),
                        i + mcs_len, prev_sep, in_string, TRUE)
        ELSE IF strings /\ in_string # NUL
        THEN IF c = "\\" /\ i + 1 < rsize
             THEN SyntaxScan(s, render,
                             [hl EXCEPT ![i + 1] = HL_STRING,
                                        ![i + 2] = HL_STRING],
                             i + 2, prev_sep, in_string, in_comment)
             ELSE SyntaxScan(s, render, [hl EXCEPT ![i + 1] = HL_STRING],
                             i + 1, TRUE,
                             IF c = in_string THEN NUL ELSE in_string,
                             in_comment)
        ELSE IF numbers /\ (\/ isdigit(c) /\ (prev_sep \/ prev_hl = HL_NUMBER)
                            \/ c = "." /\ prev_hl = HL_NUMBER)
        THEN SyntaxScan(s, render, [hl1 EXCEPT ![i + 1] = HL_NUMBER],
                        i + 1, FALSE, in_string1, in_comment)
        ELSE IF kw # 0
        THEN SyntaxScan(s, render,
                        MemSet(hl1, i, IF kw2 THEN HL_KEYWORD2
                                       ELSE HL_KEYWORD1, klen),
                        i + klen, FALSE, in_string1, in_comment)
        ELSE SyntaxScan(s, render, hl1, i + 1, is_separator(c), in_string1,
                        in_comment)

\* void editorUpdateSyntax(erow *row), with row == &E.row[at].  The rows
\* before and after are found through row->idx, as in the code, and the
\* recursion is bounded by E.numrows as it stands at the time of the call.
RECURSIVE editorUpdateSyntax(_, _)
editorUpdateSyntax(E, at) ==
    LET row == E.row[at + 1]
        hl0 == [j \in 1..row.rsize |-> HL_NORMAL]
        in_comment0 == row.idx > 0 /\ E.row[row.idx].hl_open_comment
        \* from `int changed' on, r being what the while loop has left
        AfterLoop(r) ==
            LET changed == row.hl_open_comment # r.in_comment
                E1 == [E EXCEPT !.row[at + 1].hl = r.hl,
                                !.row[at + 1].hl_open_comment = r.in_comment]
            IN  IF changed /\ row.idx + 1 < E.numrows
                THEN editorUpdateSyntax(E1, row.idx + 1)
                ELSE E1
    IN  IF E.syntax = 0 THEN [E EXCEPT !.row[at + 1].hl = hl0]
        ELSE AfterLoop(SyntaxScan(HLDB[E.syntax], row.render, hl0, 0, TRUE,
                                  NUL, in_comment0))

\* seeded fault: an editorUpdateSyntax that, on a changed flag, updates the
\* row once more before it goes on to the next
RECURSIVE UpdatedRowsTwice(_, _)
UpdatedRowsTwice(E, at) ==
    LET row == E.row[at + 1]
        hl0 == [j \in 1..row.rsize |-> HL_NORMAL]
        in_comment0 == row.idx > 0 /\ E.row[row.idx].hl_open_comment
        AfterLoop(r) ==
            LET changed == row.hl_open_comment # r.in_comment
                E1 == [E EXCEPT !.row[at + 1].hl = r.hl,
                                !.row[at + 1].hl_open_comment = r.in_comment]
                this == [idx |-> row.idx, changed |-> changed]
            IN  IF changed
                THEN <<this, [idx |-> row.idx, changed |-> FALSE]>>
                     \o (IF row.idx + 1 < E.numrows
                         THEN UpdatedRowsTwice(E1, row.idx + 1) ELSE << >>)
                ELSE <<this>>
    IN  IF E.syntax = 0 THEN <<[idx |-> row.idx, changed |-> FALSE]>>
        ELSE AfterLoop(SyntaxScan(HLDB[E.syntax], row.render, hl0, 0, TRUE,
                                  NUL, in_comment0))

\* the rows a call editorUpdateSyntax(&E.row[at]) updates, in order, each
\* with its `changed'
RECURSIVE UpdatedRows(_, _)
UpdatedRows(E, at) ==
    LET row == E.row[at + 1]
        hl0 == [j \in 1..row.rsize |-> HL_NORMAL]
        in_comment0 == row.idx > 0 /\ E.row[row.idx].hl_open_comment
        AfterLoop(r) ==
            LET changed == row.hl_open_comment # r.in_comment
                E1 == [E EXCEPT !.row[at + 1].hl = r.hl,
                                !.row[at + 1].hl_open_comment = r.in_comment]
                this == [idx |-> row.idx, changed |-> changed]
            IN  IF changed /\ row.idx + 1 < E.numrows
                THEN <<this>> \o UpdatedRows(E1, row.idx + 1)
                ELSE <<this>>
    IN  IF E.syntax = 0 THEN <<[idx |-> row.idx, changed |-> FALSE]>>
        ELSE AfterLoop(SyntaxScan(HLDB[E.syntax], row.render, hl0, 0, TRUE,
                                  NUL, in_comment0))

\* the ANSI colour of a highlight class
editorSyntaxToColor(hl) ==
    CASE hl = HL_COMMENT -> 36
      [] hl = HL_MLCOMMENT -> 36
      [] hl = HL_KEYWORD1 -> 33
      [] hl = HL_KEYWORD2 -> 32
      [] hl = HL_STRING -> 35
      [] hl = HL_NUMBER -> 31
      [] hl = HL_MATCH -> 34
      [] OTHER -> 37

\* the loop `for (filerow = 0; filerow < E.numrows; filerow++)
\* editorUpdateSyntax(&E.row[filerow])' from filerow on
RECURSIVE UpdateSyntaxFrom(_, _)
UpdateSyntaxFrom(E, filerow) ==
    IF filerow >= E.numrows THEN E
    ELSE UpdateSyntaxFrom(editorUpdateSyntax(E, filerow), filerow + 1)

\* whether HLDB[j].filematch[i] matches E.filename, ext being
\* strchr(E.filename, '.')
FileMatches(filename, pattern) ==
    LET ext == StrChr(filename, ".")
        is_ext == pattern[1] = "."
    IN  \/ is_ext /\ ext # NoString /\ ext = pattern
        \/ ~is_ext /\ StrStr(filename, pattern) # -1

\* void editorSelectSyntaxHighlight(): E.syntax is 0 for NULL, otherwise the
\* index (from 1) of the entry of HLDB it points to.
editorSelectSyntaxHighlight(E) ==
    LET E0 == [E EXCEPT !.syntax = 0]
        hits == {j \in 1..HLDB_ENTRIES :
                    \E i \in 1..Len(HLDB[j].filematch) :
                        FileMatches(E.filename, HLDB[j].filematch[i])}
        first == CHOOSE j \in hits : \A k \in hits : j <= k
    IN  IF E.filename = NoString \/ hits = {} THEN E0
        ELSE UpdateSyntaxFrom([E0 EXCEPT !.syntax = first], 0)

(***************************************************************************)
(* row operations                                                          *)
(***************************************************************************)
\* int editorRowCxToRx(erow *row, int cx)
RECURSIVE CxToRxLoop(_, _, _, _)
CxToRxLoop(row, cx, j, rx) ==
    IF j >= cx THEN rx
    ELSE CxToRxLoop(row, cx, j + 1,
                    (IF CharAt(row.chars, j) = TAB
                     THEN rx + (KILO_TAB_STOP - 1) - (rx % KILO_TAB_STOP)
                     ELSE rx) + 1)

editorRowCxToRx(row, cx) == CxToRxLoop(row, cx, 0, 0)

\* int editorRowRxToCx(erow *row, int rx)
RECURSIVE RxToCxLoop(_, _, _, _)
RxToCxLoop(row, rx, cx, cur_rx) ==
    LET next_rx == (IF CharAt(row.chars, cx) = TAB
                    THEN cur_rx + (KILO_TAB_STOP - 1)
                                - (cur_rx % KILO_TAB_STOP)
                    ELSE cur_rx) + 1
    IN  IF cx >= row.size THEN cx
        ELSE IF next_rx > rx THEN cx
        ELSE RxToCxLoop(row, rx, cx + 1, next_rx)

\* seeded fault: editorRowRxToCx returning at cur_rx >= rx
RECURSIVE RxToCxLoopAtRx(_, _, _, _)
RxToCxLoopAtRx(row, rx, cx, cur_rx) ==
    LET next_rx == (IF CharAt(row.chars, cx) = TAB
                    THEN cur_rx + (KILO_TAB_STOP - 1)
                                - (cur_rx % KILO_TAB_STOP)
                    ELSE cur_rx) + 1
    IN  IF cx >= row.size THEN cx
        ELSE IF next_rx >= rx THEN cx
        ELSE RxToCxLoopAtRx(row, rx, cx + 1, next_rx)

editorRowRxToCxAtRx(row, rx) == RxToCxLoopAtRx(row, rx, 0, 0)

\* seeded fault: an editorRowRxToCx that takes every byte for one column
editorRowRxToCxOneColumn(row, rx) == IF rx < row.size THEN rx ELSE row.size

editorRowRxToCx(row, rx) == RxToCxLoop(row, rx, 0, 0)

\* seeded fault: an editorUpdateRow that gives every TAB eight spaces
RECURSIVE RenderLoopEightSpaces(_, _, _, _)
RenderLoopEightSpaces(chars, size, j, render) ==
    IF j >= size THEN render
    ELSE IF CharAt(chars, j) = TAB
    THEN RenderLoopEightSpaces(chars, size, j + 1,
                               render \o [k \in 1..KILO_TAB_STOP |-> " "])
    ELSE RenderLoopEightSpaces(chars, size, j + 1,
                               Append(render, chars[j + 1]))

\* the second loop of editorUpdateRow: render built from chars[j..size)
RECURSIVE RenderLoop(_, _, _, _)
RenderLoop(chars, size, j, render) ==
    LET pad == KILO_TAB_STOP - (Len(render) % KILO_TAB_STOP)
    IN  IF j >= size THEN render
        ELSE IF CharAt(chars, j) = TAB
        THEN RenderLoop(chars, size, j + 1,
                        render \o [k \in 1..pad |-> " "])
        ELSE RenderLoop(chars, size, j + 1, Append(render, chars[j + 1]))

\* seeded fault: editorUpdateRow without its call of editorUpdateSyntax, so
\* that hl keeps the length it had
editorUpdateRowNoSyntax(E, at) ==
    LET row == E.row[at + 1]
        render == RenderLoop(row.chars, row.size, 0, << >>)
    IN  [E EXCEPT !.row[at + 1].render = render,
                  !.row[at + 1].rsize = Len(render)]

\* void editorUpdateRow(erow *row), with row == &E.row[at]
editorUpdateRow(E, at) ==
    LET row == E.row[at + 1]
        render == RenderLoop(row.chars, row.size, 0, << >>)
    IN  editorUpdateSyntax([E EXCEPT !.row[at + 1].render = render,
                                     !.row[at + 1].rsize = Len(render)],
                           at)

\* void editorInsertRow(int at, char *s, size_t len), s holding len bytes
editorInsertRow(E, at, s) ==
    LET new == [idx |-> at, size |-> Len(s), chars |-> s, rsize |-> 0,
                render |-> << >>, hl |-> << >>, hl_open_comment |-> FALSE]
        moved == [j \in 1..(E.numrows + 1) |->
                    IF j - 1 < at THEN E.row[j]
                    ELSE IF j - 1 = at THEN new
                    ELSE [E.row[j - 1] EXCEPT !.idx = @ + 1]]
        E1 == editorUpdateRow([E EXCEPT !.row = moved], at)
    IN  IF at < 0 \/ at > E.numrows THEN E
        ELSE [E1 EXCEPT !.numrows = @ + 1, !.dirty = @ + 1]

\* seeded fault: editorDelRow without the loop that renumbers the rows
\* after at
editorDelRowKeepIdx(E, at) ==
    LET moved == [j \in 1..(E.numrows - 1) |->
                    IF j - 1 < at THEN E.row[j] ELSE E.row[j + 1]]
    IN  IF at < 0 \/ at >= E.numrows THEN E
        ELSE [E EXCEPT !.row = moved, !.numrows = @ - 1, !.dirty = @ + 1]

\* void editorDelRow(int at)
editorDelRow(E, at) ==
    LET moved == [j \in 1..(E.numrows - 1) |->
                    IF j - 1 < at THEN E.row[j]
                    ELSE [E.row[j + 1] EXCEPT !.idx = @ - 1]]
    IN  IF at < 0 \/ at >= E.numrows THEN E
        ELSE [E EXCEPT !.row = moved, !.numrows = @ - 1, !.dirty = @ + 1]

\* seeded fault: an editorRowInsertChar that puts every byte at the end
editorRowInsertCharAtEnd(E, r, at0, c) ==
    LET row == E.row[r + 1]
        E1 == editorUpdateRow([E EXCEPT !.row[r + 1].chars =
                                            SubSeq(row.chars, 1, row.size)
                                                \o <<c>>,
                                        !.row[r + 1].size = @ + 1], r)
    IN  [E1 EXCEPT !.dirty = @ + 1]

\* void editorRowInsertChar(erow *row, int at, int c), row == &E.row[r]
editorRowInsertChar(E, r, at0, c) ==
    LET row == E.row[r + 1]
        at == IF at0 < 0 \/ at0 > row.size THEN row.size ELSE at0
        chars == SubSeq(row.chars, 1, at) \o <<c>>
                 \o SubSeq(row.chars, at + 1, row.size)
        E1 == editorUpdateRow([E EXCEPT !.row[r + 1].chars = chars,
                                        !.row[r + 1].size = @ + 1], r)
    IN  [E1 EXCEPT !.dirty = @ + 1]

\* void editorRowAppendString(erow *row, char *s, size_t len)
editorRowAppendString(E, r, s) ==
    LET row == E.row[r + 1]
        E1 == editorUpdateRow([E EXCEPT !.row[r + 1].chars = row.chars \o s,
                                        !.row[r + 1].size = @ + Len(s)], r)
    IN  [E1 EXCEPT !.dirty = @ + 1]

\* seeded fault: editorRowDelChar without E.dirty++
editorRowDelCharClean(E, r, at) ==
    LET row == E.row[r + 1]
        chars == SubSeq(row.chars, 1, at)
                 \o SubSeq(row.chars, at + 2, row.size)
    IN  IF at < 0 \/ at >= row.size THEN E
        ELSE editorUpdateRow([E EXCEPT !.row[r + 1].chars = chars,
                                       !.row[r + 1].size = @ - 1], r)

\* seeded fault: editorRowDelChar taking at == row->size as a byte of the
\* row
editorRowDelCharPastEnd(E, r, at) ==
    LET row == E.row[r + 1]
        chars == SubSeq(row.chars, 1, at)
                 \o SubSeq(row.chars, at + 2, row.size)
        E1 == editorUpdateRow([E EXCEPT !.row[r + 1].chars =
                                            SubSeq(chars, 1, row.size - 1),
                                        !.row[r + 1].size = @ - 1], r)
    IN  IF at < 0 \/ at > row.size \/ row.size = 0 THEN E
        ELSE [E1 EXCEPT !.dirty = @ + 1]

\* void editorRowDelChar(erow *row, int at)
editorRowDelChar(E, r, at) ==
    LET row == E.row[r + 1]
        chars == SubSeq(row.chars, 1, at)
                 \o SubSeq(row.chars, at + 2, row.size)
        E1 == editorUpdateRow([E EXCEPT !.row[r + 1].chars = chars,
                                        !.row[r + 1].size = @ - 1], r)
    IN  IF at < 0 \/ at >= row.size THEN E
        ELSE [E1 EXCEPT !.dirty = @ + 1]

(***************************************************************************)
(* editor operations                                                       *)
(***************************************************************************)
\* void editorInsertChar(int c)
editorInsertChar(E, c) ==
    LET \* from editorRowInsertChar on
        Insert(E1) ==
            [editorRowInsertChar(E1, E1.cy, E1.cx, c) EXCEPT !.cx = @ + 1]
    IN  Insert(IF E.cy = E.numrows
               THEN editorInsertRow(E, E.numrows, << >>)
               ELSE E)

\* seeded fault: an editorInsertNewLine that leaves the cursor where it was
editorInsertNewLineKeepsCursor(E) ==
    LET row == E.row[E.cy + 1]
        Inserted(E1) ==
            IF E.cx = 0 THEN E1
            ELSE editorUpdateRow(
                     [E1 EXCEPT !.row[E.cy + 1].size = E.cx,
                                !.row[E.cy + 1].chars = SubSeq(@, 1, E.cx)],
                     E.cy)
    IN  Inserted(editorInsertRow(
                     E,
                     IF E.cx = 0 THEN E.cy ELSE E.cy + 1,
                     IF E.cx = 0 THEN << >>
                     ELSE SubSeq(row.chars, E.cx + 1, row.size)))

\* void editorInsertNewLine()
editorInsertNewLine(E) ==
    LET row == E.row[E.cy + 1]
        \* after the editorInsertRow of either branch
        Inserted(E1) ==
            IF E.cx = 0 THEN E1
            ELSE editorUpdateRow(
                     [E1 EXCEPT !.row[E.cy + 1].size = E.cx,
                                !.row[E.cy + 1].chars = SubSeq(@, 1, E.cx)],
                     E.cy)
    IN  [Inserted(editorInsertRow(
                      E,
                      IF E.cx = 0 THEN E.cy ELSE E.cy + 1,
                      IF E.cx = 0 THEN << >>
                      ELSE SubSeq(row.chars, E.cx + 1, row.size)))
            EXCEPT !.cy = @ + 1, !.cx = 0]

\* seeded fault: an editorDelChar that joins the rows and leaves E.cx at 0
editorDelCharJoinsAtZero(E) ==
    LET row == E.row[E.cy + 1]
        E1 == editorRowDelChar(E, E.cy, E.cx - 1)
        E3 == editorRowAppendString(E, E.cy - 1,
                                    SubSeq(row.chars, 1, row.size))
        E4 == editorDelRow(E3, E.cy)
    IN  IF E.cy = E.numrows THEN E
        ELSE IF E.cx = 0 /\ E.cy = 0 THEN E
        ELSE IF E.cx > 0 THEN [E1 EXCEPT !.cx = @ - 1]
        ELSE [E4 EXCEPT !.cy = @ - 1]

\* seeded fault: an editorDelChar that removes an empty first row
editorDelCharDropsEmptyRow(E) ==
    LET row == E.row[E.cy + 1]
        E1 == editorRowDelChar(E, E.cy, E.cx - 1)
        E2 == [E EXCEPT !.cx = E.row[E.cy].size]
        E3 == editorRowAppendString(E2, E.cy - 1,
                                    SubSeq(row.chars, 1, row.size))
        E4 == editorDelRow(E3, E.cy)
    IN  IF E.cy = E.numrows THEN E
        ELSE IF E.cx = 0 /\ E.cy = 0
        THEN IF row.size = 0 THEN editorDelRow(E, 0) ELSE E
        ELSE IF E.cx > 0 THEN [E1 EXCEPT !.cx = @ - 1]
        ELSE [E4 EXCEPT !.cy = @ - 1]

\* void editorDelChar()
editorDelChar(E) ==
    LET row == E.row[E.cy + 1]
        E1 == editorRowDelChar(E, E.cy, E.cx - 1)
        E2 == [E EXCEPT !.cx = E.row[E.cy].size]
        E3 == editorRowAppendString(E2, E.cy - 1,
                                    SubSeq(row.chars, 1, row.size))
        E4 == editorDelRow(E3, E.cy)
    IN  IF E.cy = E.numrows THEN E
        ELSE IF E.cx = 0 /\ E.cy = 0 THEN E
        ELSE IF E.cx > 0 THEN [E1 EXCEPT !.cx = @ - 1]
        ELSE [E4 EXCEPT !.cy = @ - 1]

(***************************************************************************)
(* file i/o                                                                *)
(***************************************************************************)
\* a file that does not exist
NoFile == <<"ENOENT">>

\* char *editorRowsToString(int *buflen): the bytes, *buflen their number
RECURSIVE RowsToStringLoop(_, _, _)
RowsToStringLoop(E, j, buf) ==
    IF j >= E.numrows THEN buf
    ELSE RowsToStringLoop(E, j + 1,
             buf \o SubSeq(E.row[j + 1].chars, 1, E.row[j + 1].size)
                 \o <<"\n">>)

\* seeded fault: editorRowsToString without the '\n' after the last row
editorRowsToStringNoLastEol(E) ==
    LET buf == RowsToStringLoop(E, 0, << >>)
    IN  IF buf = << >> THEN buf ELSE SubSeq(buf, 1, Len(buf) - 1)

editorRowsToString(E) == RowsToStringLoop(E, 0, << >>)

\* getline(): the length of the first line of bytes, its '\n' included
LineLen(bytes) ==
    LET nl == {i \in 1..Len(bytes) : bytes[i] = "\n"}
    IN  IF nl = {} THEN Len(bytes)
        ELSE CHOOSE i \in nl : \A j \in nl : i <= j

\* seeded fault: editorOpen without the loop that strips the line end
StripEolNone(line, linelen) == linelen

\* the inner loop of editorOpen: linelen without the trailing '\n' and '\r'
RECURSIVE StripEol(_, _)
StripEol(line, linelen) ==
    IF linelen > 0 /\ (line[linelen] = "\n" \/ line[linelen] = "\r")
    THEN StripEol(line, linelen - 1)
    ELSE linelen

\* the while loop of editorOpen over what is left of the file
RECURSIVE OpenLoop(_, _)
OpenLoop(E, bytes) ==
    LET n == LineLen(bytes)
        line == SubSeq(bytes, 1, n)
    IN  IF bytes = << >> THEN E
        ELSE OpenLoop(editorInsertRow(E, E.numrows,
                                      SubSeq(line, 1, StripEol(line, n))),
                      SubSeq(bytes, n + 1, Len(bytes)))

\* void editorOpen(char *filename), file being the bytes fopen() gives;
\* the caller takes the die("fopen") branch when file = NoFile
editorOpen(E, filename, file) ==
    LET E1 == editorSelectSyntaxHighlight([E EXCEPT !.filename = filename])
    IN  [OpenLoop(E1, file) EXCEPT !.dirty = 0]

\* editorSetStatusMessage(fmt, ...): the format and its arguments
StatusMessage(fmt, args) == [fmt |-> fmt, args |-> args]

\* ftruncate(fd, len) on a file of these bytes
Truncated(bytes, len) ==
    [j \in 1..len |-> IF j <= Len(bytes) THEN bytes[j] ELSE NUL]

\* the results of the system calls of one editorSave of len bytes:
\* which call fails, and how many bytes a failed write() has written
IOResults(len) ==
    {[fails |-> "none", written |-> len],
     [fails |-> "open", written |-> 0],
     [fails |-> "ftruncate", written |-> 0]}
    \cup {[fails |-> "write", written |-> n] :
             n \in {k \in {0, len - 1} : k >= 0 /\ k <= len}}

\* seeded fault: an editorSave that sets E.dirty = 0 before it knows that
\* the calls have succeeded
SaveToDiskClearsDirty(E, file, io) ==
    LET buf == editorRowsToString(E)
        len == Len(buf)
        opened == IF file = NoFile THEN << >> ELSE file
        err == [E EXCEPT !.dirty = 0,
                         !.statusmsg =
                   StatusMessage("Can't save! I/O error: %s", <<"errno">>)]
    IN  CASE io.fails = "none" ->
               [E |-> [E EXCEPT !.dirty = 0,
                                !.statusmsg = StatusMessage(
                                    "%d bytes written to disk", <<len>>)],
                file |-> buf]
          [] io.fails = "write" ->
               [E |-> err,
                file |-> [j \in 1..len |->
                             IF j <= io.written THEN buf[j]
                             ELSE Truncated(opened, len)[j]]]
          [] io.fails = "ftruncate" -> [E |-> err, file |-> opened]
          [] OTHER -> [E |-> err, file |-> file]

\* seeded fault: an editorSave that reports the bytes of the rows without
\* their line ends
SaveToDiskCountsChars(E, file, io) ==
    LET buf == editorRowsToString(E)
        len == Len(buf)
        opened == IF file = NoFile THEN << >> ELSE file
        err == [E EXCEPT !.statusmsg =
                   StatusMessage("Can't save! I/O error: %s", <<"errno">>)]
    IN  CASE io.fails = "none" ->
               [E |-> [E EXCEPT !.dirty = 0,
                                !.statusmsg = StatusMessage(
                                    "%d bytes written to disk",
                                    <<len - E.numrows>>)],
                file |-> buf]
          [] io.fails = "write" ->
               [E |-> err,
                file |-> [j \in 1..len |->
                             IF j <= io.written THEN buf[j]
                             ELSE Truncated(opened, len)[j]]]
          [] io.fails = "ftruncate" -> [E |-> err, file |-> opened]
          [] OTHER -> [E |-> err, file |-> file]

\* editorSave() from `int len;' on, E.filename being set: the editor and
\* the file after it
SaveToDisk(E, file, io) ==
    LET buf == editorRowsToString(E)
        len == Len(buf)
        \* open(O_RDWR | O_CREAT) creates the file that is missing
        opened == IF file = NoFile THEN << >> ELSE file
        err == [E EXCEPT !.statusmsg =
                   StatusMessage("Can't save! I/O error: %s", <<"errno">>)]
    IN  CASE io.fails = "none" ->
               [E |-> [E EXCEPT !.dirty = 0,
                                !.statusmsg = StatusMessage(
                                    "%d bytes written to disk", <<len>>)],
                file |-> buf]
          [] io.fails = "write" ->
               [E |-> err,
                file |-> [j \in 1..len |->
                             IF j <= io.written THEN buf[j]
                             ELSE Truncated(opened, len)[j]]]
          [] io.fails = "ftruncate" -> [E |-> err, file |-> opened]
          [] OTHER -> [E |-> err, file |-> file]

(***************************************************************************)
(* find                                                                    *)
(***************************************************************************)
\* memcpy(dst, src, n)
MemCpy(dst, src, n) ==
    [j \in 1..Max(Len(dst), n) |-> IF j <= n THEN src[j] ELSE dst[j]]

\* the statics of editorFindCallback as the program starts.  saved_hl is
\* the copy saved_hl points to; has_saved_hl is saved_hl != NULL.
FindInit ==
    [last_match |-> -1, direction |-> 1, saved_hl_line |-> 0,
     saved_hl |-> << >>, has_saved_hl |-> FALSE]

\* seeded fault: the loop of editorFindCallback stopping at the last and
\* at the first row, where it should wrap
RECURSIVE FindLoopNoWrap(_, _, _, _, _)
FindLoopNoWrap(E, F, query, current0, i) ==
    LET current == current0 + F.direction
        row == E.row[current + 1]
        match == StrStr(row.render, query)
    IN  IF i >= E.numrows \/ current = -1 \/ current = E.numrows
        THEN [E |-> E, F |-> F]
        ELSE IF match # -1
        THEN [E |-> [E EXCEPT !.cy = current,
                              !.cx = editorRowRxToCx(row, match),
                              !.rowoff = E.numrows,
                              !.row[current + 1].hl =
                                  MemSet(@, match, HL_MATCH, Len(query))],
              F |-> [F EXCEPT !.last_match = current,
                              !.saved_hl_line = current,
                              !.saved_hl = SubSeq(row.hl, 1, row.rsize),
                              !.has_saved_hl = TRUE]]
        ELSE FindLoopNoWrap(E, F, query, current, i + 1)

\* the for loop of editorFindCallback from iteration i on
RECURSIVE FindLoop(_, _, _, _, _)
FindLoop(E, F, query, current0, i) ==
    LET stepped == current0 + F.direction
        current == IF stepped = -1 THEN E.numrows - 1
                   ELSE IF stepped = E.numrows THEN 0
                   ELSE stepped
        row == E.row[current + 1]
        match == StrStr(row.render, query)
    IN  IF i >= E.numrows THEN [E |-> E, F |-> F]
        ELSE IF match # -1
        THEN [E |-> [E EXCEPT !.cy = current,
                              !.cx = editorRowRxToCx(row, match),
                              !.rowoff = E.numrows,
                              !.row[current + 1].hl =
                                  MemSet(@, match, HL_MATCH, Len(query))],
              F |-> [F EXCEPT !.last_match = current,
                              !.saved_hl_line = current,
                              !.saved_hl = SubSeq(row.hl, 1, row.rsize),
                              !.has_saved_hl = TRUE]]
        ELSE FindLoop(E, F, query, current, i + 1)

\* seeded fault: editorFindCallback without the memcpy that restores the
\* overlaid row
editorFindCallbackKeepsOverlay(E, F, query, key) ==
    LET F1 == [F EXCEPT !.saved_hl = << >>, !.has_saved_hl = FALSE]
        F2 == IF key = ARROW_RIGHT \/ key = ARROW_DOWN
              THEN [F1 EXCEPT !.direction = 1]
              ELSE IF key = ARROW_LEFT \/ key = ARROW_UP
              THEN [F1 EXCEPT !.direction = -1]
              ELSE [F1 EXCEPT !.last_match = -1, !.direction = 1]
        F3 == IF F2.last_match = -1 THEN [F2 EXCEPT !.direction = 1] ELSE F2
    IN  IF key = ENTER \/ key = ESC
        THEN [E |-> E, F |-> [F1 EXCEPT !.last_match = -1, !.direction = 1]]
        ELSE FindLoop(E, F3, query, F3.last_match, 0)

\* void editorFindCallback(char *query, int key); F holds its statics
editorFindCallback(E, F, query, key) ==
    LET E1 == IF F.has_saved_hl
              THEN [E EXCEPT !.row[F.saved_hl_line + 1].hl =
                       MemCpy(@, F.saved_hl,
                              E.row[F.saved_hl_line + 1].rsize)]
              ELSE E
        F1 == [F EXCEPT !.saved_hl = << >>, !.has_saved_hl = FALSE]
        F2 == IF key = ARROW_RIGHT \/ key = ARROW_DOWN
              THEN [F1 EXCEPT !.direction = 1]
              ELSE IF key = ARROW_LEFT \/ key = ARROW_UP
              THEN [F1 EXCEPT !.direction = -1]
              ELSE [F1 EXCEPT !.last_match = -1, !.direction = 1]
        F3 == IF F2.last_match = -1 THEN [F2 EXCEPT !.direction = 1] ELSE F2
    IN  IF key = ENTER \/ key = ESC
        THEN [E |-> E1, F |-> [F1 EXCEPT !.last_match = -1, !.direction = 1]]
        ELSE FindLoop(E1, F3, query, F3.last_match, 0)

(***************************************************************************)
(* input                                                                   *)
(***************************************************************************)
\* seeded fault: an editorMoveCursor without the final snap of E.cx
editorMoveCursorNoSnap(E, key) ==
    LET row == E.row[E.cy + 1]
        has_row == ~(E.cy >= E.numrows)
    IN  CASE key = ARROW_LEFT ->
               IF E.cx # 0 THEN [E EXCEPT !.cx = @ - 1]
               ELSE IF E.cy > 0
               THEN [E EXCEPT !.cy = @ - 1, !.cx = E.row[E.cy].size]
               ELSE E
          [] key = ARROW_RIGHT ->
               IF has_row /\ E.cx < row.size THEN [E EXCEPT !.cx = @ + 1]
               ELSE IF has_row /\ E.cx = row.size
               THEN [E EXCEPT !.cy = @ + 1, !.cx = 0]
               ELSE E
          [] key = ARROW_UP ->
               IF E.cy # 0 THEN [E EXCEPT !.cy = @ - 1] ELSE E
          [] key = ARROW_DOWN ->
               IF E.cy < E.numrows THEN [E EXCEPT !.cy = @ + 1] ELSE E
          [] OTHER -> E

\* seeded fault: an ARROW_RIGHT that stops at the end of the row
editorMoveCursorStopsAtEnd(E, key) ==
    LET row == E.row[E.cy + 1]
        has_row == ~(E.cy >= E.numrows)
        E1 == CASE key = ARROW_LEFT ->
                     IF E.cx # 0 THEN [E EXCEPT !.cx = @ - 1]
                     ELSE IF E.cy > 0
                     THEN [E EXCEPT !.cy = @ - 1, !.cx = E.row[E.cy].size]
                     ELSE E
                [] key = ARROW_RIGHT ->
                     IF has_row /\ E.cx < row.size
                     THEN [E EXCEPT !.cx = @ + 1]
                     ELSE E
                [] key = ARROW_UP ->
                     IF E.cy # 0 THEN [E EXCEPT !.cy = @ - 1] ELSE E
                [] key = ARROW_DOWN ->
                     IF E.cy < E.numrows THEN [E EXCEPT !.cy = @ + 1] ELSE E
                [] OTHER -> E
        rowlen == IF E1.cy >= E1.numrows THEN 0 ELSE E1.row[E1.cy + 1].size
    IN  IF E1.cx > rowlen THEN [E1 EXCEPT !.cx = rowlen] ELSE E1

\* void editorMoveCursor(int key)
editorMoveCursor(E, key) ==
    LET row == E.row[E.cy + 1]
        has_row == ~(E.cy >= E.numrows)
        E1 == CASE key = ARROW_LEFT ->
                     IF E.cx # 0 THEN [E EXCEPT !.cx = @ - 1]
                     ELSE IF E.cy > 0
                     THEN [E EXCEPT !.cy = @ - 1, !.cx = E.row[E.cy].size]
                     ELSE E
                [] key = ARROW_RIGHT ->
                     IF has_row /\ E.cx < row.size
                     THEN [E EXCEPT !.cx = @ + 1]
                     ELSE IF has_row /\ E.cx = row.size
                     THEN [E EXCEPT !.cy = @ + 1, !.cx = 0]
                     ELSE E
                [] key = ARROW_UP ->
                     IF E.cy # 0 THEN [E EXCEPT !.cy = @ - 1] ELSE E
                [] key = ARROW_DOWN ->
                     IF E.cy < E.numrows THEN [E EXCEPT !.cy = @ + 1] ELSE E
                [] OTHER -> E
        rowlen == IF E1.cy >= E1.numrows THEN 0 ELSE E1.row[E1.cy + 1].size
    IN  IF E1.cx > rowlen THEN [E1 EXCEPT !.cx = rowlen] ELSE E1

\* `while (times--) editorMoveCursor(key)', for times >= 0
RECURSIVE MoveTimes(_, _, _)
MoveTimes(E, key, times) ==
    IF times = 0 THEN E
    ELSE MoveTimes(editorMoveCursor(E, key), key, times - 1)

(***************************************************************************)
(* output                                                                  *)
(***************************************************************************)
\* void editorScroll()
editorScroll(E) ==
    LET rx == IF E.cy < E.numrows
              THEN editorRowCxToRx(E.row[E.cy + 1], E.cx) ELSE 0
        rowoff1 == IF E.cy < E.rowoff THEN E.cy ELSE E.rowoff
        rowoff2 == IF E.cy >= rowoff1 + E.screenrows
                   THEN E.cy - E.screenrows + 1 ELSE rowoff1
        coloff1 == IF rx < E.coloff THEN rx ELSE E.coloff
        coloff2 == IF rx >= coloff1 + E.screencols
                   THEN rx - E.screencols + 1 ELSE coloff1
    IN  [E EXCEPT !.rx = rx, !.rowoff = rowoff2, !.coloff = coloff2]

(***************************************************************************)
(* output: what editorDrawRows appends for a row of the file.  The output  *)
(* is a sequence of <<"sgr", n>> for ESC [ n m (0 for ESC [ m),            *)
(* <<"ch", c>> for a byte of the row and <<"sym", c>> for the symbol shown *)
(* for control byte c                                                      *)
(***************************************************************************)
\* seeded fault: the loop that never writes a colour
RECURSIVE DrawRowLoopPlain(_, _, _, _, _, _, _)
DrawRowLoopPlain(render, hl, coloff, len, j, current_color, ab) ==
    IF j >= len THEN ab
    ELSE DrawRowLoopPlain(render, hl, coloff, len, j + 1, current_color,
                          Append(ab, <<"ch", render[coloff + j + 1]>>))

\* the loop `for (j = 0; j < len; j++)' of editorDrawRows from j on, c and
\* hl being render + coloff and hl + coloff
RECURSIVE DrawRowLoop(_, _, _, _, _, _, _)
DrawRowLoop(render, hl, coloff, len, j, current_color, ab) ==
    LET cj == render[coloff + j + 1]
        hlj == hl[coloff + j + 1]
        color == editorSyntaxToColor(hlj)
    IN  IF j >= len THEN ab
        ELSE IF iscntrl(cj)
        THEN DrawRowLoop(render, hl, coloff, len, j + 1, current_color,
                 ab \o <<<<"sgr", 7>>, <<"sym", cj>>, <<"sgr", 0>>>>
                    \o (IF current_color # -1
                        THEN <<<<"sgr", current_color>>>> ELSE << >>))
        ELSE IF hlj = HL_NORMAL
        THEN DrawRowLoop(render, hl, coloff, len, j + 1, current_color,
                 ab \o <<<<"sgr", 39>>, <<"ch", cj>>>>)
        ELSE DrawRowLoop(render, hl, coloff, len, j + 1, color,
                 ab \o (IF color # current_color
                        THEN <<<<"sgr", color>>>> ELSE << >>)
                    \o <<<<"ch", cj>>>>)

\* the number of bytes of row filerow that editorDrawRows draws
DrawnLen(E, filerow) ==
    LET len == E.row[filerow + 1].rsize - E.coloff
    IN  IF len < 0 THEN 0
        ELSE IF len > E.screencols THEN E.screencols
        ELSE len

\* editorDrawRows writes the welcome line on some screen line
WelcomeDrawn(e) ==
    \E y \in 0..(e.screenrows - 1) :
        /\ y + e.rowoff >= e.numrows
        /\ e.numrows = 0 /\ y = e.screenrows \div 3

\* editorDrawRows for a screen line that shows row filerow, up to the
\* ESC [ 39 m after the loop
DrawRow(E, filerow) ==
    Append(DrawRowLoop(E.row[filerow + 1].render, E.row[filerow + 1].hl,
                       E.coloff, DrawnLen(E, filerow), 0, -1, << >>),
           <<"sgr", 39>>)

(***************************************************************************)
(* init                                                                    *)
(***************************************************************************)
\* void initEditor(), getWindowSize() having reported rows and cols
initEditor(rows, cols) ==
    [cx |-> 0, cy |-> 0, rx |-> 0, rowoff |-> 0, coloff |-> 0,
     numrows |-> 0, row |-> << >>, dirty |-> 0, filename |-> NoString,
     statusmsg |-> StatusMessage("", << >>), syntax |-> 0,
     screenrows |-> rows - 2, screencols |-> cols]

(***************************************************************************)
(* the process                                                             *)
(***************************************************************************)
VARIABLES
    E,           \* struct editorConfig E, without orig_termios
    quit_times,  \* the static of editorProcessKeypress
    F,           \* the statics of editorFindCallback
    pc,          \* "main": editorProcessKeypress is reading a key;
                 \* "find", "save": the editorPrompt of editorFind or of
                 \* editorSave is reading a key; "exiting0", "exiting1":
                 \* exit() has been called; "exit0", "exit1": exited
    P,           \* the locals of the running editorPrompt and editorFind
    disk,        \* the bytes of the file named E.filename, or NoFile
    termios,     \* the terminal's mode: "raw" or "orig"
    H            \* history: qrun, the CTRL-Q presses in a row that the
                 \* main loop has just answered with the warning; saved,
                 \* the rows last loaded or successfully saved; nsaves,
                 \* the CTRL-S presses so far; edits, the keys so far that
                 \* changed the buffer; call, the function last called
                 \* on its own and its argument

vars == <<E, quit_times, F, pc, P, disk, termios, H>>

(***************************************************************************)
(* bounds of the model                                                     *)
(***************************************************************************)
\* keys that change the buffer, followed in one run
MaxEdits == 2
\* CTRL-S presses followed in one run
MaxSaves == 1
\* bytes typed into one prompt
MaxPrompt == 1

\* no prompt is running
\* H.call: no function has been called on its own
NoCall == [op |-> "none", at |-> 0]

NoPrompt ==
    [buf |-> << >>, saved_cx |-> 0, saved_cy |-> 0, saved_coloff |-> 0,
     saved_rowoff |-> 0]

RowChars(e) == [j \in 1..e.numrows |-> SubSeq(e.row[j].chars, 1, e.row[j].size)]

\* the cursor is on a byte of a row, at the end of a row, or at column 0 of
\* the line after the last row
InDocument(e) ==
    /\ 0 <= e.cy /\ e.cy <= e.numrows
    /\ 0 <= e.cx
    /\ e.cx <= (IF e.cy < e.numrows THEN e.row[e.cy + 1].size ELSE 0)

\* the keys that change the buffer
IsEditKey(c) ==
    c \notin {CTRL_Q, CTRL_S, CTRL_F, CTRL_L, ESC, HOME_KEY, END_KEY,
              PAGE_UP, PAGE_DOWN, ARROW_UP, ARROW_DOWN, ARROW_LEFT,
              ARROW_RIGHT}

\* the switch of editorProcessKeypress for the keys it handles without a
\* prompt, a system call or an exit
ProcessKey(e, c) ==
    CASE c = ENTER -> editorInsertNewLine(e)
      [] c = HOME_KEY -> [e EXCEPT !.cx = 0]
      [] c = END_KEY ->
           IF e.cy < e.numrows THEN [e EXCEPT !.cx = e.row[e.cy + 1].size]
           ELSE e
      [] c = BACKSPACE \/ c = CTRL_H \/ c = DEL_KEY ->
           editorDelChar(IF c = DEL_KEY
                         THEN editorMoveCursor(e, ARROW_RIGHT) ELSE e)
      [] c = PAGE_UP ->
           MoveTimes([e EXCEPT !.cy = e.rowoff], ARROW_UP, e.screenrows)
      [] c = PAGE_DOWN ->
           MoveTimes([e EXCEPT !.cy = IF e.rowoff + e.screenrows - 1
                                         > e.numrows
                                      THEN e.numrows
                                      ELSE e.rowoff + e.screenrows - 1],
                     ARROW_DOWN, e.screenrows)
      [] c \in {ARROW_UP, ARROW_DOWN, ARROW_LEFT, ARROW_RIGHT} ->
           editorMoveCursor(e, c)
      [] c = CTRL_L \/ c = ESC -> e
      [] OTHER -> editorInsertChar(e, c)

\* main(): enableRawMode(), initEditor(), editorOpen(argv[1]) when there is
\* an argument, the help message and the first editorRefreshScreen().
\* term is the size getWindowSize() reports, file the argument and the
\* bytes of the file it names.
Start(term, file) ==
    LET E0 == initEditor(term.rows, term.cols)
        dies == file.name # NoString /\ file.bytes = NoFile
        \* from editorSetStatusMessage on, E1 being the editor it finds
        Started(E1) ==
            /\ E = IF dies THEN E0
                   ELSE editorScroll([E1 EXCEPT !.statusmsg = StatusMessage(
                       "HELP: Ctrl-S = save | Ctrl-Q = quit | Ctrl-F = find",
                       << >>)])
            /\ H = [qrun |-> 0, nsaves |-> 0, edits |-> 0,
                    saved |-> IF dies THEN << >> ELSE RowChars(E1),
                    call |-> NoCall]
    IN  /\ Started(IF file.name = NoString \/ dies THEN E0
                   ELSE editorOpen(E0, file.name, file.bytes))
        /\ quit_times = KILO_QUIT_TIMES
        /\ F = FindInit
        /\ pc = IF dies THEN "exit1" ELSE "main"
        /\ P = NoPrompt
        /\ disk = file.bytes
        /\ termios = IF dies THEN "orig" ELSE "raw"

\* seeded fault: the switch without `quit_times = KILO_QUIT_TIMES' after it
DispatchKeepsCountdown(c) ==
    /\ pc = "main"
    /\ InDocument(E)
    /\ c \notin {CTRL_Q, CTRL_S, CTRL_F}
    /\ IsEditKey(c) => H.edits < MaxEdits
    /\ E' = editorScroll(ProcessKey(E, c))
    /\ H' = [H EXCEPT !.qrun = 0,
                      !.edits = IF E'.dirty # E.dirty THEN @ + 1 ELSE @]
    /\ UNCHANGED <<quit_times, F, pc, P, disk, termios>>

\* editorProcessKeypress() reads one of the keys of ProcessKey
Dispatch(c) ==
    /\ pc = "main"
    /\ InDocument(E)
    /\ c \notin {CTRL_Q, CTRL_S, CTRL_F}
    /\ IsEditKey(c) => H.edits < MaxEdits
    /\ E' = editorScroll(ProcessKey(E, c))
    /\ quit_times' = KILO_QUIT_TIMES
    /\ H' = [H EXCEPT !.qrun = 0,
                      !.edits = IF E'.dirty # E.dirty THEN @ + 1 ELSE @]
    /\ UNCHANGED <<F, pc, P, disk, termios>>

\* seeded fault: the warning without quit_times--
QuitWarnKeepsCount ==
    /\ pc = "main"
    /\ InDocument(E)
    /\ E.dirty # 0 /\ quit_times > 0
    /\ E' = editorScroll([E EXCEPT !.statusmsg = StatusMessage(
              "WARNING!! File has unsaved changes. Press Ctrl-Q %d more times to quit.",
              <<quit_times>>)])
    /\ H' = [H EXCEPT !.qrun = @ + 1]
    /\ UNCHANGED <<quit_times, F, pc, P, disk, termios>>

\* editorProcessKeypress() reads CTRL-Q and returns after the warning
QuitWarn ==
    /\ pc = "main"
    /\ InDocument(E)
    /\ E.dirty # 0 /\ quit_times > 0
    /\ E' = editorScroll([E EXCEPT !.statusmsg = StatusMessage(
              "WARNING!! File has unsaved changes. Press Ctrl-Q %d more times to quit.",
              <<quit_times>>)])
    /\ quit_times' = quit_times - 1
    /\ H' = [H EXCEPT !.qrun = @ + 1]
    /\ UNCHANGED <<F, pc, P, disk, termios>>

\* editorProcessKeypress() reads CTRL-Q and calls exit(0), which runs
\* disableRawMode()
QuitExit ==
    /\ pc = "main"
    /\ InDocument(E)
    /\ ~(E.dirty # 0 /\ quit_times > 0)
    /\ pc' = "exit0"
    /\ termios' = "orig"
    /\ UNCHANGED <<E, quit_times, F, P, disk, H>>

\* editorProcessKeypress() reads CTRL-S with a file name set: editorSave()
\* and the system calls' results io
Save(io) ==
    /\ pc = "main"
    /\ InDocument(E)
    /\ H.nsaves < MaxSaves
    /\ E.filename # NoString
    /\ io \in IOResults(Len(editorRowsToString(E)))
    /\ LET Saved(r) ==
               /\ E' = editorScroll(r.E)
               /\ disk' = r.file
       IN  Saved(SaveToDisk(E, disk, io))
    /\ H' = [H EXCEPT !.qrun = 0, !.nsaves = @ + 1,
                      !.saved = IF io.fails = "none" THEN RowChars(E) ELSE @]
    /\ quit_times' = KILO_QUIT_TIMES
    /\ UNCHANGED <<F, pc, P, termios>>

\* the status message editorPrompt sets before it reads a key
PromptMessage(prompt, buf) == StatusMessage(prompt, <<buf>>)

SavePromptText == "Save as: %s (ESC to cancel)"
FindPromptText == "Search: %s (Use ESC/Arrows/Enter)"

\* editorProcessKeypress() reads CTRL-S with no file name: editorSave()
\* calls editorPrompt, which reads its first key
SaveAs ==
    /\ pc = "main"
    /\ InDocument(E)
    /\ H.nsaves < MaxSaves
    /\ E.filename = NoString
    /\ pc' = "save"
    /\ P' = NoPrompt
    /\ E' = editorScroll([E EXCEPT !.statusmsg =
                             PromptMessage(SavePromptText, << >>)])
    /\ H' = [H EXCEPT !.nsaves = @ + 1]
    /\ UNCHANGED <<quit_times, F, disk, termios>>

\* editorProcessKeypress() reads CTRL-F: editorFind() saves the cursor and
\* calls editorPrompt, which reads its first key
Find ==
    /\ pc = "main"
    /\ InDocument(E)
    /\ pc' = "find"
    /\ P' = [buf |-> << >>, saved_cx |-> E.cx, saved_cy |-> E.cy,
             saved_coloff |-> E.coloff, saved_rowoff |-> E.rowoff]
    /\ E' = editorScroll([E EXCEPT !.statusmsg =
                             PromptMessage(FindPromptText, << >>)])
    /\ UNCHANGED <<quit_times, F, disk, termios, H>>

\* the buffer of editorPrompt after key c, for the keys that do not end it
PromptBuf(buf, c) ==
    IF c = DEL_KEY \/ c = CTRL_H \/ c = BACKSPACE
    THEN IF Len(buf) # 0 THEN SubSeq(buf, 1, Len(buf) - 1) ELSE buf
    ELSE IF c # ESC /\ c # ENTER /\ ~iscntrl(c) /\ Below128(c)
    THEN Append(buf, c)
    ELSE buf

\* seeded fault: an editorFind that restores E.cx and E.cy only
FindEndKeepsOffsets(c) ==
    /\ pc = "find"
    /\ c = ESC \/ (c = ENTER /\ Len(P.buf) # 0)
    /\ LET E1 == [E EXCEPT !.statusmsg = StatusMessage("", << >>)]
           Found(r) ==
               /\ E' = editorScroll(
                           IF c = ESC
                           THEN [r.E EXCEPT !.cx = P.saved_cx,
                                            !.cy = P.saved_cy]
                           ELSE r.E)
               /\ F' = r.F
       IN  Found(editorFindCallback(E1, F, P.buf, c))
    /\ pc' = "main"
    /\ P' = NoPrompt
    /\ quit_times' = KILO_QUIT_TIMES
    /\ H' = [H EXCEPT !.qrun = 0]
    /\ UNCHANGED <<disk, termios>>

\* the editorPrompt of editorFind reads ESC, or ENTER with a non-empty
\* buffer: the callback runs, editorPrompt returns, editorFind restores the
\* cursor after ESC, and editorProcessKeypress resets quit_times
FindEnd(c) ==
    /\ pc = "find"
    /\ c = ESC \/ (c = ENTER /\ Len(P.buf) # 0)
    /\ LET E1 == [E EXCEPT !.statusmsg = StatusMessage("", << >>)]
           Found(r) ==
               /\ E' = editorScroll(
                           IF c = ESC
                           THEN [r.E EXCEPT !.cx = P.saved_cx,
                                            !.cy = P.saved_cy,
                                            !.coloff = P.saved_coloff,
                                            !.rowoff = P.saved_rowoff]
                           ELSE r.E)
               /\ F' = r.F
       IN  Found(editorFindCallback(E1, F, P.buf, c))
    /\ pc' = "main"
    /\ P' = NoPrompt
    /\ quit_times' = KILO_QUIT_TIMES
    /\ H' = [H EXCEPT !.qrun = 0]
    /\ UNCHANGED <<disk, termios>>

\* seeded fault: a search prompt in which CTRL-Q quits the editor
FindKeyUpToQuits(c, n) ==
    /\ pc = "find"
    /\ ~(c = ESC \/ (c = ENTER /\ Len(P.buf) # 0))
    /\ Len(PromptBuf(P.buf, c)) <= n
    /\ LET buf == PromptBuf(P.buf, c)
           Found(r) ==
               /\ E' = editorScroll([r.E EXCEPT !.statusmsg =
                                        PromptMessage(FindPromptText, buf)])
               /\ F' = r.F
       IN  /\ Found(editorFindCallback(E, F, buf, c))
           /\ P' = [P EXCEPT !.buf = buf]
    /\ pc' = IF c = CTRL_Q THEN "exit0" ELSE pc
    /\ UNCHANGED <<quit_times, disk, termios, H>>

\* the editorPrompt of editorFind reads any other key: the buffer changes,
\* the callback runs and the prompt is shown again; n bounds the buffer
FindKeyUpTo(c, n) ==
    /\ pc = "find"
    /\ ~(c = ESC \/ (c = ENTER /\ Len(P.buf) # 0))
    /\ Len(PromptBuf(P.buf, c)) <= n
    /\ LET buf == PromptBuf(P.buf, c)
           Found(r) ==
               /\ E' = editorScroll([r.E EXCEPT !.statusmsg =
                                        PromptMessage(FindPromptText, buf)])
               /\ F' = r.F
       IN  /\ Found(editorFindCallback(E, F, buf, c))
           /\ P' = [P EXCEPT !.buf = buf]
    /\ UNCHANGED <<quit_times, pc, disk, termios, H>>

FindKey(c) == FindKeyUpTo(c, MaxPrompt)

\* seeded fault: a cancelled save that returns past the reset of quit_times
SaveAsCancelKeepsCountdown ==
    /\ pc = "save"
    /\ E' = editorScroll([E EXCEPT !.statusmsg = StatusMessage("", << >>)])
    /\ pc' = "main"
    /\ P' = NoPrompt
    /\ H' = [H EXCEPT !.qrun = 0]
    /\ UNCHANGED <<quit_times, F, disk, termios>>

\* seeded fault: a cancelled prompt whose buffer editorSave takes as the
\* file name
SaveAsCancelTakesName ==
    /\ pc = "save"
    /\ E' = editorScroll([E EXCEPT !.statusmsg = StatusMessage("", << >>),
                                   !.filename = P.buf])
    /\ pc' = "main"
    /\ P' = NoPrompt
    /\ quit_times' = KILO_QUIT_TIMES
    /\ H' = [H EXCEPT !.qrun = 0]
    /\ UNCHANGED <<F, disk, termios>>

\* the editorPrompt of editorSave reads ESC: editorSave clears the message
\* and returns
SaveAsCancel ==
    /\ pc = "save"
    /\ E' = editorScroll([E EXCEPT !.statusmsg = StatusMessage("", << >>)])
    /\ pc' = "main"
    /\ P' = NoPrompt
    /\ quit_times' = KILO_QUIT_TIMES
    /\ H' = [H EXCEPT !.qrun = 0]
    /\ UNCHANGED <<F, disk, termios>>

\* the editorPrompt of editorSave reads ENTER with a non-empty buffer:
\* editorSave takes the name, selects the syntax and saves
SaveAsEnter(io) ==
    /\ pc = "save"
    /\ Len(P.buf) # 0
    /\ io \in IOResults(Len(editorRowsToString(E)))
    /\ LET Saved(r) ==
               /\ E' = editorScroll(r.E)
               /\ disk' = r.file
       IN  Saved(SaveToDisk(editorSelectSyntaxHighlight(
                                [E EXCEPT !.statusmsg =
                                              StatusMessage("", << >>),
                                          !.filename = P.buf]),
                            disk, io))
    /\ H' = [H EXCEPT !.qrun = 0,
                      !.saved = IF io.fails = "none" THEN RowChars(E) ELSE @]
    /\ pc' = "main"
    /\ P' = NoPrompt
    /\ quit_times' = KILO_QUIT_TIMES
    /\ UNCHANGED <<F, termios>>

\* the editorPrompt of editorSave reads any other key; n bounds the buffer
SaveAsKeyUpTo(c, n) ==
    /\ pc = "save"
    /\ c # ESC
    /\ ~(c = ENTER /\ Len(P.buf) # 0)
    /\ Len(PromptBuf(P.buf, c)) <= n
    /\ LET buf == PromptBuf(P.buf, c)
       IN  /\ E' = editorScroll([E EXCEPT !.statusmsg =
                                    PromptMessage(SavePromptText, buf)])
           /\ P' = [P EXCEPT !.buf = buf]
    /\ UNCHANGED <<quit_times, F, pc, disk, termios, H>>

SaveAsKey(c) == SaveAsKeyUpTo(c, MaxPrompt)

\* the results write() and the other system calls of a save may have
AllIOResults ==
    {[fails |-> f, written |-> n] :
        f \in {"none", "open", "ftruncate", "write"}, n \in 0..16}

(***************************************************************************)
(* inputs                                                                  *)
(***************************************************************************)
\* the file with these lines, each ended by '\n'
RECURSIVE FileOf(_)
FileOf(lines) ==
    IF lines = << >> THEN << >>
    ELSE lines[1] \o <<"\n">> \o FileOf(Tail(lines))

\* kilo with no argument
NoArgument == [name |-> NoString, bytes |-> NoFile]

\* the size of an ordinary terminal: two text rows of three columns
Terminal == [rows |-> 4, cols |-> 3]

MoveKeys ==
    {ARROW_LEFT, ARROW_RIGHT, ARROW_DOWN, ARROW_UP, HOME_KEY, END_KEY,
     PAGE_UP, PAGE_DOWN}

NamedKeys ==
    MoveKeys \cup {ENTER, ESC, BACKSPACE, DEL_KEY, CTRL_F, CTRL_H, CTRL_L,
                   CTRL_Q, CTRL_S}

(***************************************************************************)
(* Spec: every key of the editor, on a file of one short row or on no      *)
(* file                                                                    *)
(***************************************************************************)
Files ==
    {NoArgument, [name |-> <<"t">>, bytes |-> FileOf(<< <<"a">> >>)]}

Keys == NamedKeys \cup {"a"}

Init == \E file \in Files : Start(Terminal, file)

Next ==
    \/ \E c \in Keys \ {CTRL_Q, CTRL_S, CTRL_F} : Dispatch(c)
    \/ QuitWarn
    \/ QuitExit
    \/ \E io \in AllIOResults : Save(io)
    \/ SaveAs
    \/ Find
    \/ \E c \in Keys : FindEnd(c)
    \/ \E c \in Keys : FindKey(c)
    \/ SaveAsCancel
    \/ \E io \in AllIOResults : SaveAsEnter(io)
    \/ \E c \in Keys : SaveAsKey(c)

Spec == Init /\ [][Next]_vars

(***************************************************************************)
(* SpecEdit: the keys that edit and move, on files with and without a      *)
(* filetype                                                                *)
(***************************************************************************)
FilesEdit ==
    {[name |-> <<"k", ".", "c">>,
      bytes |-> FileOf(<< <<"/">>, <<"/", "*">>, <<"*">> >>)],
     [name |-> <<"t">>, bytes |-> FileOf(<< <<TAB, "*">>, <<"/">> >>)]}

KeysEdit == MoveKeys \cup {ENTER, BACKSPACE, CTRL_H, DEL_KEY, "/", "*"}

InitEdit == \E file \in FilesEdit : Start(Terminal, file)

NextEdit == \E c \in KeysEdit : Dispatch(c)

SpecEdit == InitEdit /\ [][NextEdit]_vars

(***************************************************************************)
(* SpecFind: searches between edits                                        *)
(***************************************************************************)
KeysFind ==
    {ARROW_LEFT, ARROW_RIGHT, ARROW_UP, ARROW_DOWN, ENTER, ESC, BACKSPACE,
     "/", "*"}

InitFind == \E file \in FilesEdit : Start(Terminal, file)

NextFind ==
    \/ \E c \in KeysFind \ {ESC} : Dispatch(c)
    \/ Find
    \/ \E c \in KeysFind : FindEnd(c)
    \/ \E c \in KeysFind : FindKey(c)

SpecFind == InitFind /\ [][NextFind]_vars

(***************************************************************************)
(* SpecTerm: the keys that edit and move, on terminals of two to four      *)
(* rows                                                                    *)
(***************************************************************************)
Terminals ==
    {[rows |-> 2, cols |-> 3], [rows |-> 3, cols |-> 2],
     [rows |-> 4, cols |-> 3]}

FilesTerm ==
    {NoArgument,
     [name |-> <<"t">>, bytes |-> FileOf(<< <<TAB, "*">>, <<"/">> >>)]}

InitTerm == \E term \in Terminals, file \in FilesTerm : Start(term, file)

NextTerm == \E c \in KeysEdit : Dispatch(c)

SpecTerm == InitTerm /\ [][NextTerm]_vars

(***************************************************************************)
(* properties of the rows                                                  *)
(***************************************************************************)
\* C1: after the load and after every editing key, each row's idx is its
\* position in E.row: rows[i].idx == i for all i in [0, numrows).
RowIdxIsPosition == \A i \in 1..E.numrows : E.row[i].idx = i - 1

\* rows have been inserted and deleted before the last row: two edits have
\* left one row more or one row less than the file had, the cursor above
\* the rows that moved
RowIdxMoved ==
    /\ H.edits = 2
    /\ E.numrows # Len(H.saved)
    /\ E.cy + 1 < E.numrows

\* C2: after every key the cursor is inside the document: 0 <= cy <=
\* numrows, 0 <= cx <= rows[cy].size when cy < numrows, and cx == 0 when
\* cy == numrows.
CursorInsideDocument ==
    /\ 0 <= E.cy /\ E.cy <= E.numrows
    /\ E.cy < E.numrows => 0 <= E.cx /\ E.cx <= E.row[E.cy + 1].size
    /\ E.cy = E.numrows => E.cx = 0

\* C3: after the editorScroll of every refresh, on every terminal, rx is
\* editorRowCxToRx of the cursor (0 on the line after the last row), the
\* cursor's row is one of the screenrows rows from rowoff on, and rx is one
\* of the screencols columns from coloff on.
CursorOnScreen ==
    /\ E.rx = IF E.cy < E.numrows
              THEN editorRowCxToRx(E.row[E.cy + 1], E.cx) ELSE 0
    /\ E.rowoff <= E.cy /\ E.cy <= E.rowoff + E.screenrows - 1
    /\ E.coloff <= E.rx /\ E.rx <= E.coloff + E.screencols - 1

\* C4: every row's hl and hl_open_comment are what editorUpdateSyntax's
\* loop yields for its render when started inside a comment exactly if the
\* row before it has hl_open_comment (row 0 starts outside).
HighlightFollowsPredecessor ==
    E.syntax # 0 =>
        \A i \in 1..E.numrows :
            LET row == E.row[i]
                r == SyntaxScan(HLDB[E.syntax], row.render,
                                [j \in 1..row.rsize |-> HL_NORMAL], 0, TRUE,
                                NUL,
                                i > 1 /\ E.row[i - 1].hl_open_comment)
            IN  /\ row.hl = r.hl
                /\ row.hl_open_comment = r.in_comment

\* C5: every row's hl is as long as its render, which is rsize bytes long,
\* also while a match is shown in HL_MATCH and after it has been restored.
HlLengthIsRsize ==
    \A i \in 1..E.numrows :
        /\ Len(E.row[i].hl) = E.row[i].rsize
        /\ Len(E.row[i].render) = E.row[i].rsize

\* a search shows its match on a row that was edited before, one whose
\* render is longer than its chars
MatchShownOnEditedRow ==
    /\ pc = "find"
    /\ H.edits > 0
    /\ \E i \in 1..E.numrows :
           /\ E.row[i].rsize > E.row[i].size
           /\ \E j \in 1..Len(E.row[i].hl) : E.row[i].hl[j] = HL_MATCH

(***************************************************************************)
(* properties of saving and of quitting                                    *)
(***************************************************************************)
SaveFailedText == "Can't save! I/O error: %s"

QuitWarningText ==
    "WARNING!! File has unsaved changes. Press Ctrl-Q %d more times to quit."

\* a step of editorSave's system calls with the results io
SaveStep(io) == Save(io) \/ SaveAsEnter(io)

\* a step of editorProcessKeypress reading CTRL-Q
QuitStep == QuitWarn \/ QuitExit

\* C6: a save whose open, ftruncate and write all succeed sets dirty to 0;
\* a save one of whose calls fails leaves dirty and the rows as they were,
\* sets the status message to "Can't save! I/O error: ..." and returns to
\* the main loop.
SaveOutcome ==
    [][\A io \in AllIOResults :
          SaveStep(io) =>
              IF io.fails = "none"
              THEN E'.dirty = 0
              ELSE /\ E'.dirty = E.dirty
                   /\ RowChars(E') = RowChars(E)
                   /\ E'.statusmsg.fmt = SaveFailedText
                   /\ pc' = "main"
                   /\ termios' = "raw"]_vars

\* a save of an edited buffer has failed and the editor is reading keys
SaveFailedWhileDirty ==
    /\ pc = "main"
    /\ H.nsaves = 1
    /\ E.dirty > 0
    /\ E.statusmsg.fmt = SaveFailedText

\* C7 as stated: dirty is 0 exactly if the rows are those last loaded or
\* successfully saved.
DirtyIffChanged == (E.dirty = 0) <=> (RowChars(E) = H.saved)

\* C7, the direction that holds: while dirty is 0 the rows are those last
\* loaded or successfully saved.
CleanIsSaved == E.dirty = 0 => RowChars(E) = H.saved

\* an edited buffer has been saved and dirty is 0 again
SavedAfterEdit ==
    /\ E.dirty = 0
    /\ H.edits > 0
    /\ E.statusmsg.fmt = "%d bytes written to disk"

\* C8 as stated: with dirty > 0 and quit_times == 3 the first CTRL-Q warns
\* and leaves quit_times == 2, and the third CTRL-Q in a row exits.
ThirdQuitExits ==
    [][/\ QuitStep /\ E.dirty > 0 /\ quit_times = KILO_QUIT_TIMES =>
              /\ pc' = "main"
              /\ quit_times' = 2
              /\ E'.statusmsg.fmt = QuitWarningText
       /\ QuitStep /\ E.dirty > 0 /\ H.qrun = 2 => pc' = "exit0"]_vars

\* C8, what the code does: with dirty > 0 the first three CTRL-Q in a row
\* warn, leaving quit_times at 2, 1 and 0, and the fourth exits.
FourthQuitExits ==
    [][QuitStep /\ E.dirty > 0 =>
          IF H.qrun < KILO_QUIT_TIMES
          THEN /\ pc' = "main"
               /\ quit_times = KILO_QUIT_TIMES - H.qrun
               /\ quit_times' = quit_times - 1
               /\ E'.statusmsg = StatusMessage(QuitWarningText,
                                               <<quit_times>>)
          ELSE /\ pc' = "exit0"
               /\ termios' = "orig"]_vars

\* the process has exited with unsaved changes
ExitedDirty ==
    /\ pc = "exit0"
    /\ E.dirty > 0
    /\ H.qrun = KILO_QUIT_TIMES

\* C9: a CTRL-Q exits with dirty # 0 only after at least three CTRL-Q in a
\* row that each showed the warning, and with dirty == 0 it exits at once.
QuitNeedsThreeWarnings ==
    [][/\ pc = "main" /\ pc' = "exit0" /\ E.dirty # 0 =>
              H.qrun >= KILO_QUIT_TIMES
       /\ QuitStep /\ E.dirty = 0 => pc' = "exit0" /\ H.qrun = 0]_vars

\* the process has exited with unsaved changes, the last warning on the
\* screen being the one that asks for one more CTRL-Q
ExitedAfterWarnings ==
    /\ pc = "exit0"
    /\ E.dirty # 0
    /\ E.statusmsg = StatusMessage(QuitWarningText, <<1>>)

\* C10: every key other than CTRL-Q that the main loop has dispatched
\* leaves quit_times at KILO_QUIT_TIMES: each step back to the main loop
\* that is not the warning resets it.
OtherKeyResetsQuitTimes ==
    [][pc' = "main" /\ ~QuitWarn => quit_times' = KILO_QUIT_TIMES]_vars

\* two warnings have been shown and a failed save has reset the countdown
CountdownResetByFailedSave ==
    /\ pc = "main"
    /\ quit_times = KILO_QUIT_TIMES
    /\ H.nsaves = 1
    /\ E.dirty > 0
    /\ E.statusmsg.fmt = SaveFailedText

(***************************************************************************)
(* SpecFile: kilo started on each file of up to MaxFileLen bytes, and one  *)
(* CTRL-S                                                                  *)
(***************************************************************************)
\* bytes of a file, followed in one run
MaxFileLen == 4

FileBytes == {"a", "\r", "\n"}

FileContents == UNION {[1..k -> FileBytes] : k \in 0..MaxFileLen}

InitFile ==
    \E bytes \in FileContents :
        Start(Terminal, [name |-> <<"t">>, bytes |-> bytes])

NextFile == \E io \in AllIOResults : Save(io)

SpecFile == InitFile /\ [][NextFile]_vars

\* the file's last byte is '\n'
EndsInNewline(f) == Len(f) > 0 /\ f[Len(f)] = "\n"

\* a line of the file ends in '\r', before its '\n'
CrBeforeLf(f) == \E i \in 1..(Len(f) - 1) : f[i] = "\r" /\ f[i + 1] = "\n"

\* a step of editorSave all of whose system calls succeed
SaveSucceeds == \E io \in AllIOResults : io.fails = "none" /\ SaveStep(io)

\* the first CTRL-S of the run succeeds, the buffer being as loaded and the
\* file as it was read
FirstSave == SaveSucceeds /\ H.edits = 0 /\ H.nsaves = 0

\* C11 as stated: loading a file that ends in '\n' and saving it without
\* an edit writes the same bytes, whatever the bytes are.
RoundTripAnyBytes ==
    [][FirstSave /\ EndsInNewline(disk) =>
          disk' = disk]_vars

\* C11, what the code does: loading a file that ends in '\n' and none of
\* whose lines ends in '\r', and saving it without an edit, writes the same
\* bytes.
RoundTripNoCrLf ==
    [][FirstSave /\ EndsInNewline(disk)
          /\ ~CrBeforeLf(disk) => disk' = disk]_vars

\* a file with a '\r' inside a line and '\n' at its end has been saved
SavedFileWithCr ==
    /\ E.statusmsg.fmt = "%d bytes written to disk"
    /\ H.edits = 0
    /\ Len(disk) = MaxFileLen
    /\ disk[2] = "\r" /\ disk[3] = "a" /\ disk[4] = "\n"

\* the bytes kilo writes when started on file f and told to save
SaveLoad(f) ==
    editorRowsToString(editorOpen(initEditor(Terminal.rows, Terminal.cols),
                                  <<"t">>, f))

\* C12: with g the bytes a save without edits writes for file f, loading
\* and saving g writes g again, and g ends in '\n' unless f is empty.
SaveLoadIdempotent ==
    [][FirstSave =>
          /\ disk' = SaveLoad(disk)
          /\ SaveLoad(disk') = disk'
          /\ disk # << >> => EndsInNewline(disk')]_vars

\* a file that did not end in '\n' has been saved, and differs from what
\* was loaded
SavedFileGainedNewline ==
    /\ E.statusmsg.fmt = "%d bytes written to disk"
    /\ H.edits = 0
    /\ E.numrows = 2
    /\ H.saved[2] = <<"a">>
    /\ Len(disk) = MaxFileLen + 1

\* the rows in order, each followed by one '\n'
RECURSIVE JoinLines(_)
JoinLines(rows) ==
    IF rows = << >> THEN << >>
    ELSE Head(rows) \o <<"\n">> \o JoinLines(Tail(rows))

\* the sum over the rows j .. numrows - 1 of size + 1
RECURSIVE SizesPlusOne(_, _)
SizesPlusOne(e, j) ==
    IF j >= e.numrows THEN 0
    ELSE e.row[j + 1].size + 1 + SizesPlusOne(e, j + 1)

\* C13: a save all of whose calls succeed writes the rows in order, each
\* followed by one '\n'; the file then has sum over the rows of size + 1
\* bytes, and that number is the one in "%d bytes written to disk".
SaveWritesRows ==
    [][SaveSucceeds =>
          /\ disk' = JoinLines(RowChars(E))
          /\ Len(disk') = SizesPlusOne(E, 0)
          /\ E'.statusmsg = StatusMessage("%d bytes written to disk",
                                          <<SizesPlusOne(E, 0)>>)]_vars

\* a buffer of two rows made by two edits has been saved
SavedTwoRows ==
    /\ E.statusmsg = StatusMessage("%d bytes written to disk", <<Len(disk)>>)
    /\ E.numrows = 2
    /\ H.edits = 2
    /\ disk = JoinLines(RowChars(E))
    /\ Len(disk) >= 3

(***************************************************************************)
(* SpecExit: the ways the process ends.  exit() runs disableRawMode, which *)
(* main's enableRawMode has registered with atexit                         *)
(***************************************************************************)
\* E before initEditor has run: a static object, all zero
ZeroEditor == initEditor(2, 0)

\* the call of main's start-up that fails and calls die
StartFailures == {"none", "tcsetattr", "getWindowSize"}

FilesExit ==
    {NoArgument,
     [name |-> <<"t">>, bytes |-> FileOf(<< <<"a">> >>)],
     [name |-> <<"t">>, bytes |-> NoFile]}

KeysExit == {ARROW_RIGHT, ARROW_DOWN, ENTER, "a"}

\* main() up to the main loop, or up to the exit(1) of die(): the second
\* tcsetattr of enableRawMode, getWindowSize or fopen failing
StartExit(term, file, fails) ==
    IF fails = "none" /\ ~(file.name # NoString /\ file.bytes = NoFile)
    THEN Start(term, file)
    ELSE /\ E = IF fails = "none" THEN initEditor(term.rows, term.cols)
                ELSE ZeroEditor
         /\ quit_times = KILO_QUIT_TIMES
         /\ F = FindInit
         /\ pc = "exiting1"
         /\ P = NoPrompt
         /\ disk = file.bytes
         /\ termios = IF fails = "tcsetattr" THEN "orig" ELSE "raw"
         /\ H = [qrun |-> 0, nsaves |-> 0, edits |-> 0, saved |-> << >>,
                 call |-> NoCall]

InitExit ==
    \E file \in FilesExit, fails \in StartFailures :
        StartExit(Terminal, file, fails)

\* editorProcessKeypress() reads CTRL-Q and calls exit(0)
QuitCallsExit ==
    /\ pc = "main"
    /\ InDocument(E)
    /\ ~(E.dirty # 0 /\ quit_times > 0)
    /\ pc' = "exiting0"
    /\ UNCHANGED <<E, quit_times, F, P, disk, termios, H>>

\* seeded fault: a die() that ends the process without the atexit functions
ReadFailsNoAtexit ==
    /\ pc \in {"main", "save", "find"}
    /\ pc' = "exit1"
    /\ UNCHANGED <<E, quit_times, F, P, disk, termios, H>>

\* read() returns -1 in editorReadKey, in the main loop or in a prompt:
\* die("read") calls exit(1)
ReadFails ==
    /\ pc \in {"main", "save", "find"}
    /\ pc' = "exiting1"
    /\ UNCHANGED <<E, quit_times, F, P, disk, termios, H>>

\* exit() calls disableRawMode; ok: its tcsetattr succeeds.  When it fails
\* die() calls exit() a second time, which is undefined: the C library
\* either goes on and ends the process or blocks for ever
disableRawMode(ok) ==
    /\ pc \in {"exiting0", "exiting1"}
    /\ IF ok
       THEN /\ termios' = "orig"
            /\ pc' = IF pc = "exiting0" THEN "exit0" ELSE "exit1"
       ELSE /\ termios' = termios
            /\ pc' \in {"exit1", "hung"}
    /\ UNCHANGED <<E, quit_times, F, P, disk, H>>

NextExit ==
    \/ \E c \in KeysExit : Dispatch(c)
    \/ QuitWarn
    \/ QuitCallsExit
    \/ SaveAs
    \/ SaveAsCancel
    \/ ReadFails
    \/ \E ok \in BOOLEAN : disableRawMode(ok)

SpecExit == InitExit /\ [][NextExit]_vars

MaxRx == 9

FilesRow ==
    {NoArgument,
     [name |-> <<"t">>, bytes |-> FileOf(<< <<TAB, "X">> >>)],
     [name |-> <<"t">>, bytes |-> FileOf(<< <<"X">>, <<TAB>> >>)]}

KeysRow == {ARROW_LEFT, ARROW_RIGHT, ARROW_UP, ARROW_DOWN, BACKSPACE}

\* a call of function op with argument at
Call(op, at) == [op |-> op, at |-> at]

\* the history after a call that leaves the editor e
Called(op, at, e) ==
    [H EXCEPT !.call = Call(op, at),
              !.edits = IF e.dirty # E.dirty THEN @ + 1 ELSE @]

\* E.cx = editorRowRxToCx(&E.row[E.cy], rx), as editorFindCallback calls it
RowRxToCx(rx) ==
    /\ pc = "main"
    /\ InDocument(E)
    /\ E.cy < E.numrows
    /\ E' = editorScroll([E EXCEPT !.cx =
                             editorRowRxToCx(E.row[E.cy + 1], rx)])
    /\ H' = Called("editorRowRxToCx", rx, E')
    /\ UNCHANGED <<quit_times, F, pc, P, disk, termios>>

\* editorInsertRow(at, s, len)
InsertRowAt(at, s) ==
    /\ pc = "main"
    /\ InDocument(E)
    /\ H.edits < MaxEdits
    /\ E' = editorScroll(editorInsertRow(E, at, s))
    /\ H' = Called("editorInsertRow", at, E')
    /\ UNCHANGED <<quit_times, F, pc, P, disk, termios>>

\* editorDelRow(at)
DelRowAt(at) ==
    /\ pc = "main"
    /\ InDocument(E)
    /\ H.edits < MaxEdits
    /\ LET e == editorDelRow(E, at)
       IN  E' = IF InDocument(e) THEN editorScroll(e) ELSE e
    /\ H' = Called("editorDelRow", at, E')
    /\ UNCHANGED <<quit_times, F, pc, P, disk, termios>>

\* editorRowDelChar(&E.row[E.cy], at)
RowDelCharAt(at) ==
    /\ pc = "main"
    /\ InDocument(E)
    /\ E.cy < E.numrows
    /\ H.edits < MaxEdits
    /\ LET e == editorRowDelChar(E, E.cy, at)
       IN  E' = IF InDocument(e) THEN editorScroll(e) ELSE e
    /\ H' = Called("editorRowDelChar", at, E')
    /\ UNCHANGED <<quit_times, F, pc, P, disk, termios>>

\* editorDelChar()
DelChar ==
    /\ pc = "main"
    /\ InDocument(E)
    /\ H.edits < MaxEdits
    /\ E' = editorScroll(editorDelChar(E))
    /\ H' = Called("editorDelChar", 0, E')
    /\ UNCHANGED <<quit_times, F, pc, P, disk, termios>>

InitRow == \E file \in FilesRow : Start(Terminal, file)

NextRow ==
    \/ \E c \in KeysRow : Dispatch(c)
    \/ \E rx \in 0..MaxRx : RowRxToCx(rx)
    \/ \E at \in -1..(E.numrows + 1) : InsertRowAt(at, <<"X">>)
    \/ \E at \in -1..(E.numrows + 1) : DelRowAt(at)
    \/ \E at \in -1..3 : RowDelCharAt(at)
    \/ DelChar

SpecRow == InitRow /\ [][NextRow]_vars

\* the cursor's row holds a TAB followed by 'X'
OnTabX ==
    /\ E.cy < E.numrows
    /\ RowChars(E)[E.cy + 1] = <<TAB, "X">>

\* C15 as stated: for a row whose chars are a TAB followed by 'X',
\* editorRowRxToCx gives 1 for rx 4 and 2 for rx 8.
RxToCxOfTabXStated ==
    [][/\ OnTabX /\ RowRxToCx(4) => E'.cx = 1
       /\ OnTabX /\ RowRxToCx(8) => E'.cx = 2]_vars

\* C15, what the code does: for a row whose chars are a TAB followed by
\* 'X', editorRowRxToCx gives 0 for rx 4, the index of the TAB whose cells
\* hold column 4, and 1 for rx 8, the index of the 'X'.
RxToCxOfTabX ==
    [][/\ OnTabX /\ RowRxToCx(4) => E'.cx = 0
       /\ OnTabX /\ RowRxToCx(8) => E'.cx = 1]_vars

\* editorRowRxToCx has been called with 8 on the row TAB 'X' and has put
\* the cursor on the 'X'
RxToCxCalledOnTabX ==
    /\ OnTabX
    /\ H.call = Call("editorRowRxToCx", 8)
    /\ E.cx = 1
    /\ E.rx = 8

\* cx, cy, coloff and rowoff of an editor
CursorAndOffsets(e) ==
    [cx |-> e.cx, cy |-> e.cy, coloff |-> e.coloff, rowoff |-> e.rowoff]

\* what editorFind has saved
SavedCursorAndOffsets(p) ==
    [cx |-> p.saved_cx, cy |-> p.saved_cy, coloff |-> p.saved_coloff,
     rowoff |-> p.saved_rowoff]

\* C16: editorFind saves cx, cy, coloff and rowoff when CTRL-F is pressed,
\* no key of the search prompt changes what is saved, and ESC puts the
\* four back; ENTER leaves the cursor where the search has put it, at the
\* start of the last match when there is one.
EscRestoresCursor ==
    [][/\ Find => SavedCursorAndOffsets(P') = CursorAndOffsets(E)
       /\ pc = "find" /\ pc' = "find" =>
              SavedCursorAndOffsets(P') = SavedCursorAndOffsets(P)
       /\ FindEnd(ESC) => CursorAndOffsets(E') = SavedCursorAndOffsets(P)
       /\ FindEnd(ENTER) =>
              /\ E'.cx = E.cx /\ E'.cy = E.cy
              /\ F.last_match # -1 =>
                     /\ E'.cy = F.last_match
                     /\ E'.cx = editorRowRxToCx(
                                    E.row[F.last_match + 1],
                                    StrStr(E.row[F.last_match + 1].render,
                                           P.buf))]_vars

\* a search has ended and the cursor is at the end of the second row, off
\* every match
SearchEndedOffMatch ==
    /\ pc = "main"
    /\ E.statusmsg = StatusMessage("", << >>)
    /\ F.last_match = -1
    /\ H.edits = 0
    /\ E.numrows = 2
    /\ E.cy = 1 /\ E.cx = 1

\* the hl of every row of e
Highlights(e) == [j \in 1..e.numrows |-> SubSeq(e.row[j].hl, 1, e.row[j].rsize)]

\* the rows that carry HL_MATCH
MatchRows(e) ==
    {j \in 1..e.numrows :
        \E k \in 1..e.row[j].rsize : e.row[j].hl[k] = HL_MATCH}

\* the hl of every row with the saved hl in the place of the overlaid one
HighlightsUnderOverlay(e, f) ==
    [j \in 1..e.numrows |->
        IF f.has_saved_hl /\ j = f.saved_hl_line + 1
        THEN SubSeq(f.saved_hl, 1, e.row[j].rsize)
        ELSE SubSeq(e.row[j].hl, 1, e.row[j].rsize)]

\* C17: at most one row carries HL_MATCH, and none outside a search; the
\* row that carries it is the one whose hl the callback has saved; every
\* key of the search prompt leaves the hl under the overlay as it was when
\* CTRL-F was pressed; and when the prompt ends, by ENTER or by ESC, every
\* row's hl is again what it was before the search.
MatchOverlayTransient ==
    /\ [](/\ Cardinality(MatchRows(E)) <= 1
          /\ pc # "find" => MatchRows(E) = {}
          /\ MatchRows(E) # {} =>
                 F.has_saved_hl /\ MatchRows(E) = {F.saved_hl_line + 1}
          /\ MatchRows([E EXCEPT !.row = [j \in 1..E.numrows |->
                 [E.row[j] EXCEPT !.hl =
                     HighlightsUnderOverlay(E, F)[j]]]]) = {})
    /\ [][/\ Find => HighlightsUnderOverlay(E', F') = Highlights(E)
          /\ pc = "find" /\ pc' = "find" =>
                 HighlightsUnderOverlay(E', F')
                     = HighlightsUnderOverlay(E, F)
          /\ pc = "find" /\ pc' = "main" =>
                 Highlights(E') = HighlightsUnderOverlay(E, F)]_vars

\* a search has ended on a buffer with a comment, and no row carries
\* HL_MATCH
SearchEndedOnComment ==
    /\ pc = "main"
    /\ E.statusmsg = StatusMessage("", << >>)
    /\ H.edits = 0
    /\ E.numrows = 3
    /\ E.cy = 2
    /\ \E k \in 1..E.row[2].rsize : E.row[2].hl[k] = HL_MLCOMMENT
    /\ MatchRows(E) = {}

(***************************************************************************)
(* SpecSearch: searches of up to MaxQuery bytes in a file of three rows    *)
(***************************************************************************)
\* bytes of a search query
MaxQuery == 3

FilesSearch ==
    {[name |-> <<"t">>,
      bytes |-> FileOf(<< <<"a", "l", "p", "h", "a">>,
                          <<"b", "e", "t", "a">>,
                          <<"a", "l", "p", "h", "a", "b", "e", "t">> >>)]}

QueryChars == {"a", "l", "p", "b"}

KeysSearch ==
    QueryChars \cup {ARROW_UP, ARROW_DOWN, ARROW_LEFT, ARROW_RIGHT,
                     BACKSPACE, ENTER, ESC}

\* the editorPrompt of editorFind reads a key that does not end it
SearchKey(c) == FindKeyUpTo(c, MaxQuery)

InitSearch == \E file \in FilesSearch : Start(Terminal, file)

NextSearch ==
    \/ Dispatch(ARROW_DOWN)
    \/ Find
    \/ \E c \in KeysSearch : FindEnd(c)
    \/ \E c \in KeysSearch : SearchKey(c)

SpecSearch == InitSearch /\ [][NextSearch]_vars

\* query q stands in the render of row j at column k
MatchesAt(e, j, q, k) ==
    /\ k + Len(q) <= e.row[j + 1].rsize
    /\ \A m \in 1..Len(q) : e.row[j + 1].render[k + m] = q[m]

\* the rows whose render contains q
MatchingRows(e, q) ==
    {j \in 0..(e.numrows - 1) :
        \E k \in 0..e.row[j + 1].rsize : MatchesAt(e, j, q, k)}

\* the first column of row j at which q stands
MatchCol(e, j, q) ==
    CHOOSE k \in 0..e.row[j + 1].rsize :
        /\ MatchesAt(e, j, q, k)
        /\ \A k2 \in 0..(k - 1) : ~MatchesAt(e, j, q, k2)

\* the first matching row in the order last + dir, last + 2 dir, ...,
\* wrapping at both ends
MatchFrom(e, q, last, dir) ==
    LET n == e.numrows
        At(d) == (last + n + dir * d) % n
        d1 == CHOOSE d \in 1..n :
                  /\ At(d) \in MatchingRows(e, q)
                  /\ \A d2 \in 1..(d - 1) : At(d2) \notin MatchingRows(e, q)
    IN  At(d1)

\* the cursor of e is at the first match of q in row j
CursorAtMatch(e, j, q) == e.cy = j /\ e.cx = MatchCol(e, j, q)

\* C18: in a search, a typed byte puts the cursor on the first row from
\* row 0 downward whose render contains the query; ARROW_DOWN and
\* ARROW_RIGHT then go to the next matching row after the last match,
\* wrapping from the last row to row 0, ARROW_UP and ARROW_LEFT to the
\* previous one, wrapping from row 0 to the last row; the cursor stays
\* where it is when no row matches.  On alpha, beta, alphabet the query
\* alp is first found at row 0 column 0, and ARROW_DOWN goes to row 2
\* column 0.
SearchOrder ==
    [][\A c \in KeysSearch :
          SearchKey(c) =>
              LET q == P'.buf
              IN  /\ MatchingRows(E, q) = {} =>
                         E'.cx = E.cx /\ E'.cy = E.cy
                  /\ MatchingRows(E, q) # {} /\ c \in QueryChars =>
                         CursorAtMatch(E', MatchFrom(E, q, -1, 1), q)
                  /\ MatchingRows(E, q) # {} /\ F.last_match # -1
                        /\ c \in {ARROW_DOWN, ARROW_RIGHT} =>
                         CursorAtMatch(E', MatchFrom(E, q, F.last_match, 1),
                                       q)
                  /\ MatchingRows(E, q) # {} /\ F.last_match # -1
                        /\ c \in {ARROW_UP, ARROW_LEFT} =>
                         CursorAtMatch(E', MatchFrom(E, q, F.last_match, -1),
                                       q)
                  /\ q = <<"a", "l", "p">> /\ c = "p" =>
                         E'.cy = 0 /\ E'.cx = 0
                  /\ q = <<"a", "l", "p">> /\ c = ARROW_DOWN
                        /\ F.last_match = 0 =>
                         E'.cy = 2 /\ E'.cx = 0]_vars

\* the query alp has been found in row 0 and, by ARROW_UP, in row 2
SearchWrappedUpward ==
    /\ pc = "find"
    /\ P.buf = <<"a", "l", "p">>
    /\ P.saved_cy = 1
    /\ F.direction = -1
    /\ F.last_match = 2
    /\ E.cy = 2 /\ E.cx = 0
    /\ MatchRows(E) = {3}

\* the rows, their number, the cursor and dirty are the same in e1 and e2
SameBuffer(e1, e2) ==
    /\ e1.row = e2.row
    /\ e1.numrows = e2.numrows
    /\ e1.cx = e2.cx /\ e1.cy = e2.cy
    /\ e1.dirty = e2.dirty

\* C19: editorDelChar with the cursor at (0, 0) or on the line after the
\* last row, editorInsertRow with at outside 0..numrows, editorDelRow with
\* at outside 0..numrows - 1 and editorRowDelChar with at outside
\* 0..size - 1 leave the rows, numrows, the cursor and dirty as they are.
OutOfRangeIsNoOp ==
    [][/\ (DelChar \/ Dispatch(BACKSPACE))
             /\ ((E.cx = 0 /\ E.cy = 0) \/ E.cy = E.numrows) =>
              SameBuffer(E, E')
       /\ \A at \in -1..(E.numrows + 1) :
              /\ InsertRowAt(at, <<"X">>) /\ (at < 0 \/ at > E.numrows) =>
                     SameBuffer(E, E')
              /\ DelRowAt(at) /\ (at < 0 \/ at >= E.numrows) =>
                     SameBuffer(E, E')
       /\ \A at \in -1..3 :
              RowDelCharAt(at)
                  /\ (at < 0 \/ at >= E.row[E.cy + 1].size) =>
                  SameBuffer(E, E')]_vars

\* editorRowDelChar has been called with at == size on the row TAB 'X',
\* the cursor at its end, and the buffer is as loaded
CalledOutOfRange ==
    /\ H.call = Call("editorRowDelChar", 2)
    /\ OnTabX
    /\ E.numrows = 1
    /\ E.cx = 2
    /\ E.dirty = 0

\* rows without the byte at column cx of row cy
WithoutByte(rows, cy, cx) ==
    [rows EXCEPT ![cy + 1] =
        SubSeq(@, 1, cx) \o SubSeq(@, cx + 2, Len(@))]

\* rows with row cy + 1 joined onto row cy
JoinedWithNext(rows, cy) ==
    [j \in 1..(Len(rows) - 1) |->
        IF j < cy + 1 THEN rows[j]
        ELSE IF j = cy + 1 THEN rows[j] \o rows[j + 1]
        ELSE rows[j + 1]]

\* C20: DEL removes the byte under the cursor or, at the end of a row that
\* has a successor, joins the next row onto the row, and leaves cx and cy
\* as they are; at the end of the last row and on the line after it DEL
\* changes neither the rows nor the cursor nor dirty.
DelKeepsCursor ==
    [][Dispatch(DEL_KEY) =>
          /\ E'.cx = E.cx /\ E'.cy = E.cy
          /\ RowChars(E') =
                 IF E.cy < E.numrows /\ E.cx < E.row[E.cy + 1].size
                 THEN WithoutByte(RowChars(E), E.cy, E.cx)
                 ELSE IF E.cy < E.numrows - 1
                 THEN JoinedWithNext(RowChars(E), E.cy)
                 ELSE RowChars(E)
          /\ E.cy >= E.numrows - 1
                /\ (E.cy < E.numrows => E.cx = E.row[E.cy + 1].size) =>
                 E'.dirty = E.dirty]_vars

TypedAt(e, c) ==
    LET row == e.row[e.cy + 1]
        chars == SubSeq(row.chars, 1, e.cx) \o <<c>>
                 \o SubSeq(row.chars, e.cx + 1, row.size)
    IN  [E |-> editorUpdateRowNoSyntax(
                   [e EXCEPT !.row[e.cy + 1].chars = chars,
                             !.row[e.cy + 1].size = @ + 1], e.cy),
         at |-> e.cy]

\* the editorInsertRow of editorInsertNewLine at its call of
\* editorUpdateRow, the render made: E.numrows is not yet incremented
SplitAt(e) ==
    LET at == IF e.cx = 0 THEN e.cy ELSE e.cy + 1
        s == IF e.cx = 0 THEN << >>
             ELSE SubSeq(e.row[e.cy + 1].chars, e.cx + 1,
                         e.row[e.cy + 1].size)
        new == [idx |-> at, size |-> Len(s), chars |-> s, rsize |-> 0,
                render |-> << >>, hl |-> << >>, hl_open_comment |-> FALSE]
        moved == [j \in 1..(e.numrows + 1) |->
                    IF j - 1 < at THEN e.row[j]
                    ELSE IF j - 1 = at THEN new
                    ELSE [e.row[j - 1] EXCEPT !.idx = @ + 1]]
    IN  [E |-> editorUpdateRowNoSyntax([e EXCEPT !.row = moved], at),
         at |-> at]

\* the calls of editorUpdateSyntax that the keys '/', '*' and ENTER lead to
\* in editor e
SyntaxCalls(e) ==
    {SplitAt(e)}
    \cup (IF e.cy < e.numrows THEN {TypedAt(e, c) : c \in {"/", "*"}}
          ELSE {})

\* C22: a call of editorUpdateSyntax for row i updates rows i, i + 1, ...
\* in turn and no row twice, so it ends after at most as many updates as
\* the buffer has rows from i on.
UpdateSyntaxTerminates ==
    \A call \in SyntaxCalls(E) :
        LET rows == UpdatedRows(call.E, call.at)
        IN  /\ Len(rows) <= Len(call.E.row) - call.at
            /\ \A k \in 1..Len(rows) : rows[k].idx = call.at + k - 1
            /\ \A k \in 1..(Len(rows) - 1) : rows[k].changed

\* the cursor is in the first of three rows of a C file, and a '*' typed
\* there has its row and the next one updated
UpdateReachesNextRow ==
    /\ E.syntax # 0
    /\ E.numrows = 3
    /\ E.cy = 0
    /\ Len(UpdatedRows(TypedAt(E, "*").E, 0)) = 2

\* C23: whenever a call of editorUpdateSyntax changes the flag of a row
\* that has a successor in the buffer, the successor is updated by the same
\* call, the call of editorInsertRow included.
ChangedFlagUpdatesNextRow ==
    \A call \in SyntaxCalls(E) :
        LET rows == UpdatedRows(call.E, call.at)
        IN  \A k \in 1..Len(rows) :
                rows[k].changed /\ rows[k].idx + 2 <= Len(call.E.row) =>
                    k < Len(rows)

(***************************************************************************)
(* SpecOpen: files of one row of digits and operators under several names, *)
(* and a new buffer saved under a name typed in the prompt                 *)
(***************************************************************************)
\* bytes of the row of a file
MaxRowLen == 3

\* bytes of a file name typed in the save-as prompt
MaxName == 2

NamesOpen ==
    {<<"k", ".", "c">>, <<"k", ".", "h">>, <<"t">>, <<"c">>,
     <<"a", ".", "b", ".", "c">>, <<".", "/", "k", ".", "c">>}

RowsOpen == UNION {[1..k -> {"1", "+"}] : k \in 1..MaxRowLen}

FilesOpen ==
    {NoArgument}
    \cup {[name |-> n, bytes |-> FileOf(<<r>>)] : n \in NamesOpen, r \in RowsOpen}

KeysOpen == {ARROW_LEFT, ARROW_RIGHT, "1", "+"}

\* the editorPrompt of editorSave reads a byte of the name
SaveAsName(c) == SaveAsKeyUpTo(c, MaxName)

InitOpen == \E file \in FilesOpen : Start(Terminal, file)

NextOpen ==
    \/ \E c \in KeysOpen : Dispatch(c)
    \/ SaveAs
    \/ \E c \in {".", "c"} : SaveAsName(c)
    \/ \E io \in AllIOResults : SaveAsEnter(io)

SpecOpen == InitOpen /\ [][NextOpen]_vars

\* what a terminal shows of output ab from token k on, fg being the
\* foreground colour set so far: the bytes, each with its colour
RECURSIVE Shown(_, _, _)
Shown(ab, k, fg) ==
    IF k > Len(ab) THEN << >>
    ELSE IF ab[k][1] = "sgr"
    THEN Shown(ab, k + 1,
               IF ab[k][2] = 0 THEN 39
               ELSE IF ab[k][2] >= 30 /\ ab[k][2] <= 39 THEN ab[k][2]
               ELSE fg)
    ELSE IF ab[k][1] = "ch" THEN <<<<ab[k][2], fg>>>> \o Shown(ab, k + 1, fg)
    ELSE Shown(ab, k + 1, fg)

\* the colour of a highlight class
ColourOfClass(hl) ==
    CASE hl = HL_NORMAL -> 39
      [] hl \in {HL_COMMENT, HL_MLCOMMENT} -> 36
      [] hl = HL_KEYWORD1 -> 33
      [] hl = HL_KEYWORD2 -> 32
      [] hl = HL_STRING -> 35
      [] hl = HL_NUMBER -> 31
      [] hl = HL_MATCH -> 34

\* the rows of the file on the screen
VisibleRows(e) ==
    {r \in 0..(e.numrows - 1) : e.rowoff <= r /\ r < e.rowoff + e.screenrows}

\* C24: every byte of a row that editorDrawRows draws is shown in the
\* colour of its highlight class: the last foreground colour written
\* before byte j is 39 for HL_NORMAL, 36 for the comments, 33 and 32 for
\* the keywords, 35 for strings, 31 for numbers and 34 for a match.
DrawnInColourOfClass ==
    \A r \in VisibleRows(E) :
        LET row == E.row[r + 1]
            drawn == {j \in 1..DrawnLen(E, r) :
                         ~iscntrl(row.render[E.coloff + j])}
            shown == Shown(DrawRow(E, r), 1, 39)
        IN  /\ Len(shown) = Cardinality(drawn)
            /\ \A j \in 1..Len(shown) :
                   shown[j] = <<row.render[E.coloff + j],
                                ColourOfClass(row.hl[E.coloff + j])>>

\* the part of a file name from its last '.' on, or NoString
FromLastDot(name) ==
    LET dots == {i \in 1..Len(name) : name[i] = "."}
    IN  IF dots = {} THEN NoString
        ELSE SubSeq(name, CHOOSE i \in dots : \A k \in dots : k <= i,
                    Len(name))

\* C25: the syntax is that of C when the file name from its last '.' on
\* is ".c", ".h" or ".cpp", and absent when it is not or when there is no
\* file name; when a syntax is selected every row is highlighted with it.
SyntaxByLastDot ==
    /\ E.syntax = IF E.filename # NoString
                     /\ FromLastDot(E.filename)
                            \in {<<".", "c">>, <<".", "h">>,
                                 <<".", "c", "p", "p">>}
                  THEN 1 ELSE 0
    /\ E.syntax # 0 => E.row = UpdateSyntaxFrom(E, 0).row


(***************************************************************************)
(* SpecKey: editorProcessKeypress on what the terminal sends for one key   *)
(***************************************************************************)
\* what one read(STDIN_FILENO, &c, 1) gives besides a byte: 0 bytes after
\* the VTIME timeout, -1 with errno EAGAIN, -1 with another errno
TIMEOUT == "TIMEOUT"
EAGAIN == "EAGAIN"
EIO == "EIO"

NoByte == {TIMEOUT, EAGAIN, EIO}

\* the results of editorReadKey: a key and the reads left to the next call,
\* exit(1) in die("read"), or the loop still waiting for a byte
KeyRead(c, rest) == [ret |-> "key", key |-> c, rest |-> rest]
KeyDie(rest) == [ret |-> "die", key |-> "", rest |-> rest]
KeyWait == [ret |-> "wait", key |-> "", rest |-> << >>]

\* one read(): the next outcome of the stream; a stream at its end has
\* nothing to give and the read times out
ReadOne(inp) ==
    IF inp = << >> THEN [got |-> TIMEOUT, rest |-> << >>]
    ELSE [got |-> Head(inp), rest |-> Tail(inp)]

\* the while loop of editorReadKey
RECURSIVE ReadByte(_)
ReadByte(inp) ==
    IF inp = << >> THEN KeyWait
    ELSE IF Head(inp) = EIO THEN KeyDie(Tail(inp))
    ELSE IF Head(inp) \in {TIMEOUT, EAGAIN} THEN ReadByte(Tail(inp))
    ELSE KeyRead(Head(inp), Tail(inp))

\* editorReadKey after it has read ESC, on the reads that follow
ReadEscape(inp) ==
    LET r0 == ReadOne(inp)
        r1 == ReadOne(r0.rest)
        r2 == ReadOne(r1.rest)
        seq0 == r0.got
        seq1 == r1.got
        seq2 == r2.got
    IN  IF seq0 \in NoByte THEN KeyRead(ESC, r0.rest)
        ELSE IF seq1 \in NoByte THEN KeyRead(ESC, r1.rest)
        ELSE IF seq0 = "["
        THEN IF isdigit(seq1)
             THEN IF seq2 \in NoByte THEN KeyRead(ESC, r2.rest)
                  ELSE IF seq2 = "~"
                  THEN CASE seq1 = "1" -> KeyRead(HOME_KEY, r2.rest)
                         [] seq1 = "3" -> KeyRead(DEL_KEY, r2.rest)
                         [] seq1 = "4" -> KeyRead(END_KEY, r2.rest)
                         [] seq1 = "5" -> KeyRead(PAGE_UP, r2.rest)
                         [] seq1 = "6" -> KeyRead(PAGE_DOWN, r2.rest)
                         [] seq1 = "7" -> KeyRead(HOME_KEY, r2.rest)
                         [] seq1 = "8" -> KeyRead(END_KEY, r2.rest)
                         [] OTHER -> KeyRead(ESC, r2.rest)
                  ELSE KeyRead(ESC, r2.rest)
             ELSE CASE seq1 = "A" -> KeyRead(ARROW_UP, r1.rest)
                    [] seq1 = "B" -> KeyRead(ARROW_DOWN, r1.rest)
                    [] seq1 = "C" -> KeyRead(ARROW_RIGHT, r1.rest)
                    [] seq1 = "D" -> KeyRead(ARROW_LEFT, r1.rest)
                    [] seq1 = "H" -> KeyRead(HOME_KEY, r1.rest)
                    [] seq1 = "F" -> KeyRead(END_KEY, r1.rest)
                    [] OTHER -> KeyRead(ESC, r1.rest)
        ELSE IF seq0 = "O"
        THEN CASE seq1 = "H" -> KeyRead(HOME_KEY, r1.rest)
               [] seq1 = "F" -> KeyRead(END_KEY, r1.rest)
               [] OTHER -> KeyRead(ESC, r1.rest)
        ELSE KeyRead(ESC, r1.rest)

\* seeded fault: a decoder that returns every byte as a key of its own
editorReadKeyRaw(inp) == ReadByte(inp)

\* editorReadKey() on the stream inp of read results
editorReadKey(inp) ==
    LET Got(r) ==
            IF r.ret = "key" /\ r.key = ESC THEN ReadEscape(r.rest) ELSE r
    IN  Got(ReadByte(inp))

\* the reads of one call of editorReadKey that are followed
MaxReads == 4

\* the bytes the terminal sends
KeyBytes ==
    {ESC, "[", "O", "A", "B", "C", "D", "H", "F", "0", "1", "2", "3", "4",
     "5", "6", "7", "8", "9", "~", BACKSPACE, ENTER, "a"}

ReadResults == KeyBytes \cup NoByte

\* the streams of n read results
Reads(n) == [1..n -> ReadResults]

\* a byte and the read that follows it, or ESC and the reads that follow
\* it, after no read without a byte or after one
InputsKey ==
    LET streams ==
            Reads(1) \cup Reads(2)
                \cup {<<ESC>> \o s : s \in UNION {Reads(n) : n \in 2..(MaxReads - 1)}}
    IN  streams \cup {<<w>> \o s : w \in {TIMEOUT, EAGAIN}, s \in streams}

\* editorProcessKeypress(): editorReadKey() on a stream inp of read
\* results, and the switch on the key it returns
KeyPress ==
    /\ pc = "main"
    /\ InDocument(E)
    /\ H.call.op = NoCall.op
    /\ \E inp \in InputsKey :
           LET Returned(r) ==
                   /\ r.ret # "wait"
                   /\ r.ret = "key" => r.key \notin {CTRL_Q, CTRL_S, CTRL_F}
                   /\ E' = IF r.ret = "key"
                           THEN editorScroll(ProcessKey(E, r.key)) ELSE E
                   /\ pc' = IF r.ret = "key" THEN pc ELSE "exiting1"
                   /\ H' = [H EXCEPT !.call = Call("editorReadKey",
                                                   [inp |-> inp, r |-> r]),
                                     !.edits = IF E'.dirty # E.dirty
                                               THEN @ + 1 ELSE @]
           IN  Returned(editorReadKey(inp))
    /\ quit_times' = IF pc' = pc THEN KILO_QUIT_TIMES ELSE quit_times
    /\ UNCHANGED <<F, P, disk, termios>>

InitKey == \E file \in FilesRow : Start(Terminal, file)

NextKey == KeyPress

SpecKey == InitKey /\ [][NextKey]_vars


\* the reads of inp from its first byte or failure on, the timeouts and
\* EAGAINs before it left out
FromFirstByte(inp) ==
    LET waits == {i \in 0..Len(inp) :
                      \A j \in 1..i : inp[j] \in {TIMEOUT, EAGAIN}}
        k == CHOOSE i \in waits : \A j \in waits : j <= i
    IN  SubSeq(inp, k + 1, Len(inp))

MaxChars == 9
MaxTabs == 2

FilesTab ==
    {[name |-> <<"t">>, bytes |-> FileOf(<<chars>>)] :
         chars \in {s \in UNION {[1..n -> {TAB, "X"}] : n \in 0..MaxChars} :
                        Cardinality({j \in 1..Len(s) : s[j] = TAB})
                            <= MaxTabs}}

KeysTab == {ARROW_LEFT, ARROW_RIGHT, END_KEY}

InitTab == \E file \in FilesTab : Start(Terminal, file)

NextTab ==
    \/ \E c \in KeysTab : Dispatch(c)
    \/ \E rx \in 0..(E.row[1].rsize + 1) : RowRxToCx(rx)

SpecTab == InitTab /\ [][NextTab]_vars

\* C27: in the render of a row every TAB of chars is one space or more, up
\* to the next column that is a multiple of 8, and every other byte is
\* itself, each at the column editorRowCxToRx gives for its index; rsize is
\* editorRowCxToRx(row, size); editorRowCxToRx does not decrease with cx and
\* is 0 for cx 0.
RenderExpandsTabs ==
    \A i \in 1..E.numrows :
        LET row == E.row[i]
            Rx(cx) == editorRowCxToRx(row, cx)
        IN  /\ row.rsize = Len(row.render)
            /\ row.rsize = Rx(row.size)
            /\ Rx(0) = 0
            /\ \A c1, c2 \in 0..row.size : c1 <= c2 => Rx(c1) <= Rx(c2)
            /\ \A j \in 0..(row.size - 1) :
                   IF row.chars[j + 1] = TAB
                   THEN /\ Rx(j + 1) >= Rx(j) + 1
                        /\ Rx(j + 1) <= Rx(j) + KILO_TAB_STOP
                        /\ Rx(j + 1) % KILO_TAB_STOP = 0
                        /\ \A k \in Rx(j)..(Rx(j + 1) - 1) :
                               row.render[k + 1] = " "
                   ELSE /\ Rx(j + 1) = Rx(j) + 1
                        /\ row.render[Rx(j) + 1] = row.chars[j + 1]

\* the cursor is at the end of a row of seven 'X's and two TABs, whose
\* TABs are one space and eight spaces in the render
TabsOfOneAndEightSpaces ==
    /\ E.numrows = 1
    /\ E.row[1].chars = <<"X", "X", "X", "X", "X", "X", "X", TAB, TAB>>
    /\ E.row[1].rsize = 16
    /\ E.cx = 9
    /\ E.rx = 16


\* C28: editorRowRxToCx(row, rx) is the smallest cx for which the render of
\* chars[0..cx], chars[cx] included, is wider than rx, and row.size when rx
\* is the width of the render or more; so editorRowRxToCx of
\* editorRowCxToRx(row, cx) is cx for every cx from 0 to row.size, and
\* editorRowCxToRx of editorRowRxToCx(row, rx) is at most rx for every
\* rx >= 0.
RxToCxIsCellOfRx ==
    \A i \in 1..E.numrows :
        LET row == E.row[i]
            Rx(cx) == editorRowCxToRx(row, cx)
            Cx(rx) == editorRowRxToCx(row, rx)
            Width(cx) == Rx(cx + 1)
        IN  /\ \A rx \in 0..(row.rsize + 2) :
                   /\ rx >= row.rsize => Cx(rx) = row.size
                   /\ rx < row.rsize =>
                          /\ Cx(rx) \in 0..(row.size - 1)
                          /\ Width(Cx(rx)) > rx
                          /\ \A c \in 0..(Cx(rx) - 1) : Width(c) <= rx
                   /\ Rx(Cx(rx)) <= rx
            /\ \A cx \in 0..row.size : Cx(Rx(cx)) = cx

\* editorRowRxToCx has been called with 11, a column of the second TAB of
\* a row of seven 'X's and two TABs, and has put the cursor on that TAB
RxToCxCalledInsideTab ==
    /\ E.numrows = 1
    /\ E.row[1].chars = <<"X", "X", "X", "X", "X", "X", "X", TAB, TAB>>
    /\ H.call = Call("editorRowRxToCx", 11)
    /\ E.cx = 8
    /\ E.rx = 8


(***************************************************************************)
(* SpecFindTerm: searches on terminals of two to four rows                 *)
(***************************************************************************)
KeysFindTerm == {ARROW_DOWN, ARROW_UP, ENTER, ESC, BACKSPACE, "/", "*"}

InitFindTerm ==
    \E term \in Terminals, file \in FilesTerm : Start(term, file)

NextFindTerm ==
    \/ Dispatch(ARROW_DOWN)
    \/ Find
    \/ \E c \in KeysFindTerm : FindEnd(c)
    \/ \E c \in KeysFindTerm : FindKey(c)

SpecFindTerm == InitFindTerm /\ [][NextFindTerm]_vars

\* C29: when the callback of a key of the search prompt finds the query in
\* row r at offset m of its render, the cursor is in row r at
\* editorRowRxToCx(row, m), and after the refresh that follows row r is the
\* first row of the window: E.rowoff == r.
MatchBecomesTopRow ==
    [][pc = "find" /\ pc' = "find" /\ F'.has_saved_hl =>
           LET r == F'.last_match
               m == StrStr(E'.row[r + 1].render, P'.buf)
           IN  /\ m # -1
               /\ E'.cy = r
               /\ E'.cx = editorRowRxToCx(E'.row[r + 1], m)
               /\ E'.rowoff = r]_vars


(***************************************************************************)
(* SpecPrompt: the keys of editorPrompt, in the prompts of editorFind and  *)
(* of editorSave                                                           *)
(***************************************************************************)
\* bytes typed into one prompt
MaxBuf == 2

KeysPrompt ==
    {ESC, ENTER, BACKSPACE, DEL_KEY, CTRL_H, CTRL_Q, TAB, ARROW_LEFT, "a",
     CHAR_FF_SIGNED, CHAR_FF_UNSIGNED}

\* editorPrompt reads a key that does not end it
PromptKey(c) == FindKeyUpTo(c, MaxBuf) \/ SaveAsKeyUpTo(c, MaxBuf)

InitPrompt == \E file \in Files : Start(Terminal, file)

NextPrompt ==
    \/ Find
    \/ SaveAs
    \/ \E c \in KeysPrompt : FindEnd(c)
    \/ SaveAsCancel
    \/ \E io \in AllIOResults : SaveAsEnter(io)
    \/ \E c \in KeysPrompt : PromptKey(c)

SpecPrompt == InitPrompt /\ [][NextPrompt]_vars

\* the keys that are bytes from 0x20 to 0x7E
PrintableAscii == {"a", "/", "*", ".", "c", "1", "+"}

\* C30: the prompt ends on ESC, whatever its buffer holds, and on ENTER
\* when the buffer is not empty, and on nothing else; ENTER on an empty
\* buffer and every other key leave it open.  BACKSPACE, DEL and CTRL-H take
\* the last byte of the buffer when there is one; only a byte below 128
\* that is no control byte is appended; every other key leaves the buffer
\* as it is.  So the buffer, and the string the prompt returns, holds no
\* control byte, no named key and no byte from 128 on.
PromptKeysAndEnds ==
    /\ [](pc \in {"find", "save"} =>
              \A k \in 1..Len(P.buf) : P.buf[k] \in PrintableAscii)
    /\ [][/\ pc = "save" /\ pc' # "save" =>
                 \/ SaveAsCancel
                 \/ Len(P.buf) # 0 /\ E'.filename = P.buf
          /\ \A c \in KeysPrompt :
                 /\ FindEnd(c) => c = ESC \/ (c = ENTER /\ Len(P.buf) # 0)
                 /\ PromptKey(c) =>
                        /\ pc' = pc
                        /\ c # ESC
                        /\ c = ENTER => Len(P.buf) = 0
                        /\ P'.buf =
                               IF c \in {BACKSPACE, DEL_KEY, CTRL_H}
                               THEN SubSeq(P.buf, 1, Len(P.buf) - 1)
                               ELSE IF c \in PrintableAscii
                               THEN Append(P.buf, c)
                               ELSE P.buf]_vars


(***************************************************************************)
(* SpecMove: the keys that move the cursor, on terminals of two to four    *)
(* rows and a file whose rows differ in length                             *)
(***************************************************************************)
FilesMove ==
    {NoArgument,
     [name |-> <<"t">>,
      bytes |-> FileOf(<< <<"a", "b">>, << >>, <<"a", "b", "c">>, <<"a">> >>)]}

\* no key before the first
NoKey == [key |-> "none", cx |-> 0, cy |-> 0]

\* editorProcessKeypress() reads a key that moves the cursor; the history
\* keeps the key, the cursor and E.rowoff it found, and the key before it
\* with the cursor that one found
Move(key) ==
    /\ pc = "main"
    /\ InDocument(E)
    /\ E' = editorScroll(ProcessKey(E, key))
    /\ quit_times' = KILO_QUIT_TIMES
    /\ H' = [H EXCEPT
                !.qrun = 0,
                !.call = Call("editorMoveCursor",
                              [key |-> key, cx |-> E.cx, cy |-> E.cy,
                               rowoff |-> E.rowoff,
                               prev |-> IF H.call.op = "editorMoveCursor"
                                        THEN [key |-> H.call.at.key,
                                              cx |-> H.call.at.cx,
                                              cy |-> H.call.at.cy]
                                        ELSE NoKey])]
    /\ UNCHANGED <<F, pc, P, disk, termios>>

InitMove == \E term \in Terminals, file \in FilesMove : Start(term, file)

NextMove == \E key \in MoveKeys : Move(key)

SpecMove == InitMove /\ [][NextMove]_vars

\* the size of row cy of editor e, 0 for the line after the last row
SizeAt(e, cy) == IF cy < e.numrows THEN e.row[cy + 1].size ELSE 0

Min(a, b) == IF a < b THEN a ELSE b

\* C31: ARROW_LEFT at column 0 of a row cy > 0 moves to the end of the row
\* before it and does nothing at (0, 0); ARROW_RIGHT at the end of a row
\* moves to column 0 of the next line and does nothing on the line after
\* the last row; ARROW_UP does nothing at cy == 0 and ARROW_DOWN nothing at
\* cy == numrows; elsewhere they move by one column or one row; and after a
\* move E.cx is the smaller of the column it had and the size of the
\* cursor's row, 0 on the line after the last row.
MoveCursorRules ==
    H.call.op = "editorMoveCursor" =>
        LET key == H.call.at.key
            cx == H.call.at.cx
            cy == H.call.at.cy
            At(x, y) == E.cx = x /\ E.cy = y
        IN  /\ key = ARROW_LEFT =>
                   IF cx = 0 /\ cy > 0 THEN At(SizeAt(E, cy - 1), cy - 1)
                   ELSE IF cx = 0 THEN At(0, 0)
                   ELSE At(cx - 1, cy)
            /\ key = ARROW_RIGHT =>
                   IF cy = E.numrows THEN At(cx, cy)
                   ELSE IF cx = SizeAt(E, cy) THEN At(0, cy + 1)
                   ELSE At(cx + 1, cy)
            /\ key = ARROW_UP =>
                   IF cy = 0 THEN At(cx, 0)
                   ELSE At(Min(cx, SizeAt(E, cy - 1)), cy - 1)
            /\ key = ARROW_DOWN =>
                   IF cy = E.numrows THEN At(cx, cy)
                   ELSE At(Min(cx, SizeAt(E, cy + 1)), cy + 1)
            /\ key \in {ARROW_LEFT, ARROW_RIGHT, ARROW_UP, ARROW_DOWN} =>
                   E.cx <= SizeAt(E, E.cy)

\* ARROW_LEFT at column 0 of the last row has moved the cursor to the end
\* of the row before it
LeftWrappedToRowEnd ==
    /\ H.call.op = "editorMoveCursor"
    /\ H.call.at.key = ARROW_LEFT
    /\ H.call.at.cx = 0 /\ H.call.at.cy = 3
    /\ E.cx = 3 /\ E.cy = 2


\* C32: with rowoff the value of E.rowoff when the key is read, PAGE_UP
\* leaves E.cy == max(0, rowoff - screenrows) and PAGE_DOWN leaves
\* E.cy == min(numrows, rowoff + 2 * screenrows - 1); after both E.cx is
\* within the cursor's row, and the rows and E.dirty are as they were.
PageKeysMoveByScreens ==
    H.call.op = "editorMoveCursor" /\ H.call.at.key \in {PAGE_UP, PAGE_DOWN} =>
        /\ H.call.at.key = PAGE_UP =>
               E.cy = Max(0, H.call.at.rowoff - E.screenrows)
        /\ H.call.at.key = PAGE_DOWN =>
               E.cy = Min(E.numrows,
                          H.call.at.rowoff + 2 * E.screenrows - 1)
        /\ E.cx <= SizeAt(E, E.cy)
        /\ E.dirty = 0
        /\ RowChars(E) = H.saved


(***************************************************************************)
(* SpecType: the keys that type, split and join, between arrow keys        *)
(***************************************************************************)
KeysType ==
    {ARROW_LEFT, ARROW_RIGHT, ARROW_UP, ARROW_DOWN, ENTER, BACKSPACE, "/",
     "*"}

\* what a key found: the cursor and the chars of the rows
Found(key, e) ==
    [key |-> key, cx |-> e.cx, cy |-> e.cy, rows |-> RowChars(e),
     dirty |-> e.dirty]

\* editorProcessKeypress() reads a key of KeysType; the history keeps the
\* key with the cursor and the rows it found, and the same of the key
\* before it
Type(key) ==
    /\ pc = "main"
    /\ InDocument(E)
    /\ IsEditKey(key) => H.edits < MaxEdits
    /\ E' = editorScroll(ProcessKey(E, key))
    /\ quit_times' = KILO_QUIT_TIMES
    /\ H' = [H EXCEPT
                !.qrun = 0,
                !.edits = IF E'.dirty # E.dirty THEN @ + 1 ELSE @,
                !.call = Call("editorProcessKeypress",
                              [now |-> Found(key, E),
                               prev |-> IF H.call.op = "editorProcessKeypress"
                                        THEN H.call.at.now
                                        ELSE Found("none", E)])]
    /\ UNCHANGED <<F, pc, P, disk, termios>>

InitType == \E file \in FilesEdit : Start(Terminal, file)

NextType == \E key \in KeysType : Type(key)

SpecType == InitType /\ [][NextType]_vars

\* the rows old with row at index cy replaced by the rows of new
Replaced(old, cy, new) ==
    SubSeq(old, 1, cy) \o new \o SubSeq(old, cy + 2, Len(old))

\* C33: typing a byte c at (cx, cy) appends an empty row first when
\* cy == numrows; then the chars of row cy are the old ones with c put in
\* at cx, E.cx is one more, E.cy is the same, no other row's chars change,
\* and numrows has grown by one when the row was appended and not
\* otherwise.
TypingInsertsAtCursor ==
    H.call.op = "editorProcessKeypress" /\ H.call.at.now.key \in {"/", "*"} =>
        LET was == H.call.at.now
            old == IF was.cy = Len(was.rows) THEN Append(was.rows, << >>)
                   ELSE was.rows
            row == old[was.cy + 1]
        IN  /\ RowChars(E) =
                   Replaced(old, was.cy,
                            <<SubSeq(row, 1, was.cx) \o <<was.key>>
                                  \o SubSeq(row, was.cx + 1, Len(row))>>)
            /\ E.cx = was.cx + 1
            /\ E.cy = was.cy
            /\ E.numrows = Len(old)
            /\ E.numrows <= Len(was.rows) + 1

\* '*' has been typed between the TAB and the '*' of a row
TypedInsideRow ==
    /\ H.call.op = "editorProcessKeypress"
    /\ H.call.at.now = [key |-> "*", cx |-> 1, cy |-> 0,
                        rows |-> << <<TAB, "*">>, <<"/">> >>,
                        dirty |-> 0]
    /\ RowChars(E) = << <<TAB, "*", "*">>, <<"/">> >>
    /\ E.cx = 2


\* C34: ENTER at (cx, cy) on a row splits it: numrows is one more, row cy
\* holds the chars before cx and row cy + 1 the chars from cx on, the other
\* rows keep their chars and their order, the cursor is at (0, cy + 1), and
\* render and hl of rows cy and cy + 1 are what editorUpdateRow makes of
\* their chars.
EnterSplitsRow ==
    /\ H.call.op = "editorProcessKeypress"
    /\ H.call.at.now.key = ENTER
    /\ H.call.at.now.cy < Len(H.call.at.now.rows)
    => LET was == H.call.at.now
           row == was.rows[was.cy + 1]
       IN  /\ E.numrows = Len(was.rows) + 1
           /\ RowChars(E) =
                  Replaced(was.rows, was.cy,
                           <<SubSeq(row, 1, was.cx),
                             SubSeq(row, was.cx + 1, Len(row))>>)
           /\ E.cx = 0
           /\ E.cy = was.cy + 1
           /\ \A r \in {was.cy, was.cy + 1} :
                  LET again == editorUpdateRow(E, r).row[r + 1]
                  IN  /\ E.row[r + 1].render = again.render
                      /\ E.row[r + 1].rsize = again.rsize
                      /\ E.row[r + 1].hl = again.hl


\* C35: BACKSPACE at column 0 of a row cy > 0 joins it onto the row before
\* it: numrows is one less, row cy - 1 holds its old chars followed by those
\* of row cy, the rows after them move up with their chars, and the cursor
\* is at (old size of row cy - 1, cy - 1).  BACKSPACE at cx > 0 takes out
\* the byte at cx - 1 and nothing else, and E.cx is one less.
BackspaceJoinsOrDeletes ==
    /\ H.call.op = "editorProcessKeypress"
    /\ H.call.at.now.key = BACKSPACE
    /\ H.call.at.now.cy < Len(H.call.at.now.rows)
    => LET was == H.call.at.now
           row == was.rows[was.cy + 1]
       IN  /\ was.cx = 0 /\ was.cy > 0 =>
                  /\ E.numrows = Len(was.rows) - 1
                  /\ RowChars(E) =
                         SubSeq(was.rows, 1, was.cy - 1)
                             \o <<was.rows[was.cy] \o row>>
                             \o SubSeq(was.rows, was.cy + 2, Len(was.rows))
                  /\ E.cx = Len(was.rows[was.cy])
                  /\ E.cy = was.cy - 1
           /\ was.cx > 0 =>
                  /\ RowChars(E) =
                         Replaced(was.rows, was.cy,
                                  <<SubSeq(row, 1, was.cx - 1)
                                        \o SubSeq(row, was.cx + 1, Len(row))>>)
                  /\ E.cx = was.cx - 1
                  /\ E.cy = was.cy

\* BACKSPACE at column 0 of the second row of k.c has joined it onto the
\* first, with the third row moved up
JoinedSecondRow ==
    /\ H.call.op = "editorProcessKeypress"
    /\ H.call.at.now = [key |-> BACKSPACE, cx |-> 0, cy |-> 1,
                        rows |-> << <<"/">>, <<"/", "*">>, <<"*">> >>,
                        dirty |-> 0]
    /\ RowChars(E) = << <<"/", "/", "*">>, <<"*">> >>
    /\ E.cx = 1 /\ E.cy = 0


(***************************************************************************)
(* SpecSyntax: the highlighting of the rows of a C file                   *)
(***************************************************************************)
\* the bytes of a row
MaxSyntaxLen == 4

SyntaxChars == {"i", "f", "n", "t", " ", "\"", "/", "*"}

\* k.c with one row, or with that row after a row that opens a comment
FilesSyntax ==
    LET rows == UNION {[1..n -> SyntaxChars] : n \in 0..MaxSyntaxLen}
    IN  {[name |-> <<"k", ".", "c">>, bytes |-> FileOf(<<r>>)] : r \in rows}
            \cup {[name |-> <<"k", ".", "c">>,
                   bytes |-> FileOf(<< <<"/", "*">>, r >>)] : r \in rows}

InitSyntax == \E file \in FilesSyntax : Start(Terminal, file)

NextSyntax == \E c \in {END_KEY, ARROW_DOWN} : Dispatch(c)

SpecSyntax == InitSyntax /\ [][NextSyntax]_vars

\* where each byte of a render lies: in code, in a string, or in a comment;
\* mode is where the byte at i begins
RECURSIVE Lexed(_, _, _, _)
Lexed(render, i, mode, acc) ==
    LET c == CharAt(render, i)
        n == Len(render)
        All(m, k) == [j \in 1..k |-> m]
    IN  IF i >= n THEN acc
        ELSE IF mode = "comment"
        THEN IF StrNCmpEq(render, i, <<"*", "/">>)
             THEN Lexed(render, i + 2, "code", acc \o All("comment", 2))
             ELSE Lexed(render, i + 1, "comment", Append(acc, "comment"))
        ELSE IF mode = "string"
        THEN Lexed(render, i + 1, IF c = "\"" THEN "code" ELSE "string",
                   Append(acc, "string"))
        ELSE IF StrNCmpEq(render, i, <<"/", "/">>)
        THEN acc \o All("comment", n - i)
        ELSE IF StrNCmpEq(render, i, <<"/", "*">>)
        THEN Lexed(render, i + 2, "comment", acc \o All("comment", 2))
        ELSE IF c = "\""
        THEN Lexed(render, i + 1, "string", Append(acc, "string"))
        ELSE Lexed(render, i + 1, "code", Append(acc, "code"))

\* the keywords of C, each with its class
KeywordTexts ==
    {[text |-> IF k[Len(k)] = "|" THEN SubSeq(k, 1, Len(k) - 1) ELSE k,
      class |-> IF k[Len(k)] = "|" THEN HL_KEYWORD2 ELSE HL_KEYWORD1] :
         k \in {C_HL_keywords[j] : j \in 1..Len(C_HL_keywords)}}

IsKeywordClass(h) == h \in {HL_KEYWORD1, HL_KEYWORD2}

\* the stretches [a, b) of a row painted as keywords, each as long as can be
KeywordRuns(row) ==
    {ab \in (0..row.rsize) \X (0..row.rsize) :
        /\ ab[1] < ab[2]
        /\ \A j \in (ab[1] + 1)..ab[2] : IsKeywordClass(row.hl[j])
        /\ ab[1] = 0 \/ ~IsKeywordClass(row.hl[ab[1]])
        /\ ab[2] = row.rsize \/ ~IsKeywordClass(row.hl[ab[2] + 1])}

\* what holds of every stretch painted as a keyword, but for the byte
\* before it: it is the text of a keyword in that keyword's class, a
\* separator or the end of the row follows it, and it lies in code
PaintedIsKeyword(e, i, ab) ==
    LET row == e.row[i]
        modes == Lexed(row.render, 0,
                       IF row.idx > 0 /\ e.row[row.idx].hl_open_comment
                       THEN "comment" ELSE "code", << >>)
    IN  /\ \E k \in KeywordTexts :
               /\ k.text = SubSeq(row.render, ab[1] + 1, ab[2])
               /\ \A j \in (ab[1] + 1)..ab[2] : row.hl[j] = k.class
        /\ ab[2] = row.rsize \/ is_separator(row.render[ab[2] + 1])
        /\ \A j \in (ab[1] + 1)..ab[2] : modes[j] = "code"

\* C36 as stated: a keyword is painted only at the start of the row or
\* after a separator, only when a separator or the end of the row follows
\* it, and never inside a string or a comment.
KeywordsAfterSeparators ==
    \A i \in 1..E.numrows : \A ab \in KeywordRuns(E.row[i]) :
        /\ PaintedIsKeyword(E, i, ab)
        /\ ab[1] = 0 \/ is_separator(E.row[i].render[ab[1]])

\* C36, what the code does: a keyword is painted (HL_KEYWORD1, or
\* HL_KEYWORD2 for the entries that end in '|') only at the start of the
\* row, after a separator, or after the quote that closes a string; only
\* when a separator or the end of the row follows it; and never inside a
\* string or a comment.
KeywordsAfterSeparatorsOrStrings ==
    \A i \in 1..E.numrows : \A ab \in KeywordRuns(E.row[i]) :
        /\ PaintedIsKeyword(E, i, ab)
        /\ \/ ab[1] = 0
           \/ is_separator(E.row[i].render[ab[1]])
           \/ /\ E.row[i].render[ab[1]] = "\""
              /\ E.row[i].hl[ab[1]] = HL_STRING

\* the keyword if is painted after the quote that closes an empty string
KeywordAfterString ==
    /\ E.numrows = 1
    /\ E.row[1].render = <<"\"", "\"", "i", "f">>
    /\ E.row[1].hl = <<HL_STRING, HL_STRING, HL_KEYWORD1, HL_KEYWORD1>>
    /\ E.cx = 4


(***************************************************************************)
(* SpecFindKeys: every kind of key in the search prompt of an edited       *)
(* buffer                                                                  *)
(***************************************************************************)
KeysInFind ==
    {ARROW_LEFT, ARROW_RIGHT, ARROW_UP, ARROW_DOWN, ENTER, ESC, BACKSPACE,
     CTRL_Q, CTRL_S, "/", "*"}

InitFindKeys == \E file \in FilesEdit : Start(Terminal, file)

NextFindKeys ==
    \/ \E c \in {ARROW_DOWN, "*"} : Dispatch(c)
    \/ Find
    \/ \E c \in KeysInFind : FindEnd(c)
    \/ \E c \in KeysInFind : FindKey(c)

SpecFindKeys == InitFindKeys /\ [][NextFindKeys]_vars

\* the editor but for its cursor, its scroll offsets, its status message and
\* the colours of its rows
BesidesCursorAndColours(e) ==
    [e EXCEPT !.cx = 0, !.cy = 0, !.rx = 0, !.rowoff = 0, !.coloff = 0,
              !.statusmsg = StatusMessage("", << >>),
              !.row = [j \in 1..e.numrows |-> [e.row[j] EXCEPT !.hl = << >>]]]

\* C37: a key read in the search prompt changes no row's chars, nor numrows,
\* dirty, filename or syntax, and does not end the process; of the editor
\* only the cursor, the scroll offsets, the status message and the colours
\* of the rows change, and the file on disk and the terminal stay as they were.
SearchPromptChangesNoText ==
    [][pc = "find" =>
          /\ RowChars(E') = RowChars(E)
          /\ E'.numrows = E.numrows
          /\ E'.dirty = E.dirty
          /\ E'.filename = E.filename
          /\ E'.syntax = E.syntax
          /\ BesidesCursorAndColours(E') = BesidesCursorAndColours(E)
          /\ pc' \in {"find", "main"}
          /\ disk' = disk
          /\ termios' = termios]_vars

\* a key was read in the search prompt of a modified buffer: the query has
\* a match, which is overlaid, and the cursor has moved to it
KeyReadInSearchOfModified ==
    /\ pc = "find"
    /\ E.dirty > 0
    /\ P.buf = <<"*">>
    /\ F.last_match # -1
    /\ E.cy = F.last_match
    /\ E.cy # P.saved_cy
    /\ \E k \in 1..E.row[E.cy + 1].rsize : E.row[E.cy + 1].hl[k] = HL_MATCH


\* the last two keys read, each with the state it found
LastKey == H.call.at.now

KeyBefore == H.call.at.prev

\* C38: with the cursor on a row of the buffer, ENTER and then BACKSPACE,
\* and a typed byte and then BACKSPACE, leave every row's chars, numrows and
\* the cursor (cx, cy) as they were before the first of the two keys, and
\* dirty larger than it was.
BackspaceUndoesEnterAndTyping ==
    (/\ H.call.op = "editorProcessKeypress"
     /\ LastKey.key = BACKSPACE
     /\ KeyBefore.key \in {ENTER, "/", "*"}
     /\ KeyBefore.cy < Len(KeyBefore.rows))
        => /\ RowChars(E) = KeyBefore.rows
           /\ E.numrows = Len(KeyBefore.rows)
           /\ E.cx = KeyBefore.cx
           /\ E.cy = KeyBefore.cy
           /\ E.dirty > KeyBefore.dirty

\* ENTER inside the row "/*" of k.c and then BACKSPACE: the row is whole
\* again and the cursor is back between its two bytes
EnterThenBackspace ==
    /\ H.call.op = "editorProcessKeypress"
    /\ LastKey.key = BACKSPACE
    /\ KeyBefore.key = ENTER
    /\ KeyBefore.cx = 1
    /\ KeyBefore.cy = 1
    /\ LastKey.cx = 0
    /\ LastKey.cy = 2
    /\ Len(LastKey.rows) = 4
    /\ E.numrows = 3
    /\ E.row[2].chars = <<"/", "*">>
    /\ E.cx = 1
    /\ E.cy = 1


\* the key before the last one found a cursor of the document: a row of the
\* buffer or the line after the last, and a column of that row or its end
FoundValidCursor(at) ==
    /\ at.cy <= E.numrows
    /\ at.cx <= SizeAt(E, at.cy)

\* C39: from a valid cursor other than (0, 0), ARROW_LEFT and then
\* ARROW_RIGHT bring the cursor back to the same (cx, cy); from a valid
\* cursor on a row of the buffer, ARROW_RIGHT and then ARROW_LEFT do.
LeftAndRightAreInverses ==
    (H.call.op = "editorMoveCursor" /\ FoundValidCursor(H.call.at.prev))
        => LET first == H.call.at.prev
               second == H.call.at
               back == E.cx = first.cx /\ E.cy = first.cy
           IN  /\ (/\ first.key = ARROW_LEFT
                   /\ second.key = ARROW_RIGHT
                   /\ ~(first.cx = 0 /\ first.cy = 0)) => back
               /\ (/\ first.key = ARROW_RIGHT
                   /\ second.key = ARROW_LEFT
                   /\ first.cy < E.numrows) => back

\* ARROW_RIGHT at the end of the first row of t went to the start of the
\* empty second row, and ARROW_LEFT came back to the end of the first
RightThenLeftAcrossRows ==
    /\ H.call.op = "editorMoveCursor"
    /\ H.call.at.prev.key = ARROW_RIGHT
    /\ H.call.at.prev.cx = 2
    /\ H.call.at.prev.cy = 0
    /\ H.call.at.key = ARROW_LEFT
    /\ H.call.at.cx = 0
    /\ H.call.at.cy = 1
    /\ E.numrows = 4
    /\ E.cx = 2
    /\ E.cy = 0


\* C40: once the buffer holds a row no key brings numrows back to 0, and the
\* welcome line is not drawn again; numrows falls only by one, at a join of
\* a row onto the row above it, which leaves the cursor at the old end of
\* that row; after the first edit, and after loading a file that has rows,
\* the buffer holds a row.
BufferNeverEmptiedAgain ==
    /\ [](H.edits > 0 => E.numrows >= 1 /\ ~WelcomeDrawn(E))
    /\ [][/\ E.numrows >= 1 => E'.numrows >= 1 /\ ~WelcomeDrawn(E')
          /\ E'.numrows < E.numrows =>
                 /\ E.numrows >= 2
                 /\ E'.numrows = E.numrows - 1
                 /\ E'.cy >= 0 /\ E'.cy < E'.numrows
                 /\ E'.cx = E.row[E'.cy + 1].size]_vars

\* ENTER and then BACKSPACE in t: the two rows were joined back into the
\* one row of the file
JoinedBackToOneRow ==
    /\ E.filename = <<"t">>
    /\ H.edits = 2
    /\ E.dirty = 3
    /\ E.numrows = 1
    /\ RowChars(E) = << <<"a">> >>
    /\ E.cx = 1
    /\ ~WelcomeDrawn(E)

=============================================================================
